---- MODULE Spec2Model ----
(***************************************************************************)
(* Model of the code-merge-mcp core: the ignore filter (core/filter.js),   *)
(* the directory traversal (core/file-lister.js), the batch processor      *)
(* (core/batch-processor.js), the file and tree caches (core/file-cache.js,*)
(* core/tree-cache.js) and the two readFiles implementations               *)
(* (core/file-reader.js).                                                  *)
(*                                                                         *)
(* Paths are sequences of tokens.  A token is one of the characters ".",   *)
(* "/" and "\", or a word: a non-empty run of other characters.  A file or *)
(* directory name is a sequence of tokens that holds no separator.         *)
(***************************************************************************)
EXTENDS Integers, Sequences, FiniteSets, TLC

VARIABLES
    \* shouldIgnore applied to one input (core/filter.js)
    fltCalled, fltPath, fltOptions, fltResult,
    \* listFiles (core/file-lister.js): the platform and file system it runs on,
    \* its options, the loaded matcher, the call stack of listFilesRecursive
    sep, fsFiles, giFile, lsOptions, gitignoreInstance,
    lsPc, lsStack, lsReturned, lsError, lsReadDirs, lsFailed,
    \* BatchProcessor (core/batch-processor.js): the instance (concurrency,
    \* running, queue, stats), every task handed to add, every processBatch
    \* call, and what the last clearQueue returned
    bp, tasks, batches, bpCleared,
    \* the clock (Date.now) and the files on disk that the caches and readers see
    now, disk, fsMods,
    \* FileCache (core/file-cache.js): the instance (maxSize, ttl, cache, stats),
    \* the calls of get in progress or returned, and the keys inserted as new
    \* since construction (with whether only set and hits have happened so far),
    \* and the number of direct calls still to be made on the instance
    fc, fcCalls, fcHist, fcPure, fcLeft,
    \* TreeCache (core/tree-cache.js): the instance (maxEntries, ttl, cache,
    \* stats), the keys inserted as new since construction (with whether only
    \* set and hits have happened so far), the last call of get and what it
    \* returned, and the number of direct calls still to be made on the instance
    tc, tcHist, tcPure, tcLast, tcLeft,
    \* readFiles (core/file-reader.js, both versions): every call made, with
    \* the position of each of its per-file reads and its fileContents map
    reads,
    \* a call of the get_file_tree or merge_content tool: its parameters and
    \* how far its handler has come
    toolCall,
    \* a call of the analyze_code tool on a directory: its language parameter,
    \* how far its handler has come, filesToProcess and what it reports
    analysis

fltVars == <<fltCalled, fltPath, fltOptions, fltResult>>
lsVars == <<sep, fsFiles, giFile, lsOptions, gitignoreInstance,
            lsPc, lsStack, lsReturned, lsError, lsReadDirs, lsFailed>>
bpVars == <<bp, tasks, batches, bpCleared>>
envVars == <<now, disk, fsMods>>
fcVars == <<fc, fcCalls, fcHist, fcPure, fcLeft>>
tcVars == <<tc, tcHist, tcPure, tcLast, tcLeft>>
rdVars == <<reads>>
toolVars == <<toolCall>>
acVars == <<analysis>>
vars == <<fltVars, lsVars, bpVars, envVars, fcVars, tcVars, rdVars, toolVars, acVars>>

\* what an action of one component leaves alone: the other components
fltOthers == <<lsVars, bpVars, envVars, fcVars, tcVars, rdVars, toolVars, acVars>>
lsOthers == <<fltVars, bpVars, envVars, fcVars, tcVars, rdVars, toolVars, acVars>>
bpOthers == <<fltVars, lsVars, envVars, fcVars, tcVars, rdVars, toolVars, acVars>>
envOthers == <<fltVars, lsVars, bpVars, fcVars, tcVars, rdVars, toolVars, acVars>>
fcOthers == <<fltVars, lsVars, bpVars, tcVars, rdVars, toolVars, acVars>>
tcOthers == <<fltVars, lsVars, bpVars, envVars, fcVars, rdVars, toolVars, acVars>>
rdOthers == <<fltVars, lsVars, tcVars, toolVars, acVars>>

----------------------------------------------------------------------------
(* Bounds of the model *)

\* the longest path, in segments, handed to shouldIgnore
MaxSegs == 3
\* the most files a modelled directory tree holds
MaxFiles == 4
\* the largest concurrency a BatchProcessor is constructed with
MaxConcurrency == 2
\* the most tasks handed to one BatchProcessor, and the most processBatch calls
MaxTasks == 3
MaxBatches == 2
\* the most items of one processBatch call
MaxBatchItems == 2
\* the last instant of the clock, and the ttl of the caches in clock ticks
MaxTime == 2
CacheTtl == 1
\* the number of files (and of directories) the caches are asked about, the
\* largest capacity a cache is constructed with, the most changes made to the
\* files on disk, and the most calls of FileCache.get in progress at once
MaxPaths == 3
MaxCapacity == 2
MaxMods == 1
MaxMutable == 1
MaxCalls == 2
\* the most direct calls (get, set, invalidate) made on a cache
MaxOps == 4
\* the most calls of readFiles, and the number of files they ask for
MaxReads == 1
MaxReadPaths == 2

----------------------------------------------------------------------------
(* Sequences of tokens *)

Range(q) == {q[i] : i \in 1..Len(q)}

Slash == "/"
BackSlash == "\\"
Dot == "."

RECURSIVE JoinWith(_, _)
\* path.join / path.relative: the names joined by the platform separator
JoinWith(names, s) ==
    IF names = <<>> THEN <<>>
    ELSE IF Len(names) = 1 THEN Head(names)
    ELSE Head(names) \o <<s>> \o JoinWith(Tail(names), s)

\* String.prototype.replace(/\\/g, '/')
NormalizeSeparators(p) ==
    [i \in 1..Len(p) |-> IF p[i] = BackSlash THEN Slash ELSE p[i]]

RECURSIVE SplitAt(_, _, _)
\* String.prototype.split('/'): every piece between slashes, empty ones included.
\* acc is the piece being read.
SplitAt(p, i, acc) ==
    IF i > Len(p) THEN <<acc>>
    ELSE IF p[i] = Slash THEN <<acc>> \o SplitAt(p, i + 1, <<>>)
    ELSE SplitAt(p, i + 1, Append(acc, p[i]))

Split(p) == SplitAt(p, 1, <<>>)

\* Array.prototype.filter(part => part !== '')
NonEmptyParts(parts) == SelectSeq(parts, LAMBDA part : part # <<>>)

\* String.prototype.toLowerCase on one token
LowerToken(t) ==
    CASE t = "PNG" -> "png"
      [] t = "Png" -> "png"
      [] t = "EXE" -> "exe"
      [] t = "BIN" -> "bin"
      [] t = "GIT" -> "git"
      [] OTHER -> t

toLowerCase(p) == [i \in 1..Len(p) |-> LowerToken(p[i])]

RECURSIVE StripTrailingSlashes(_)
StripTrailingSlashes(p) ==
    IF p # <<>> /\ p[Len(p)] = Slash THEN StripTrailingSlashes(SubSeq(p, 1, Len(p) - 1))
    ELSE p

\* the last path component, trailing slashes dropped
LastComponent(p) ==
    LET t == StripTrailingSlashes(p)
        slashes == {i \in 1..Len(t) : t[i] = Slash}
        from == IF slashes = {} THEN 1
                ELSE (CHOOSE i \in slashes : \A j \in slashes : j <= i) + 1
    IN SubSeq(t, from, Len(t))

\* path.extname (posix, the path holds no backslash once normalised): from the
\* last dot of the last component to its end; empty when there is no dot, when
\* the last dot is the component's first character, or when the component is ".."
extname(p) ==
    LET base == LastComponent(p)
        dots == {i \in 1..Len(base) : base[i] = Dot}
        startDot == CHOOSE i \in dots : \A j \in dots : j <= i
    IN IF dots = {} THEN <<>>
       ELSE IF startDot = 1 THEN <<>>
       ELSE IF base = <<Dot, Dot>> THEN <<>>
       ELSE SubSeq(base, startDot, Len(base))

----------------------------------------------------------------------------
(* core/filter.js *)

DEFAULT_BLACKLIST ==
    { <<"node_modules">>, <<"dist">>, <<"build">>, <<"target">>, <<"bin">>,
      <<"obj">>, <<"vendor">>, <<Dot, "git">>, <<Dot, "idea">>, <<Dot, "vscode">>,
      <<"__pycache__">>, <<"venv">>, <<"env">>, <<Dot, "env">>, <<"coverage">>,
      <<"tmp">>, <<"temp">> }

BINARY_EXTENSIONS ==
    { <<Dot, w>> : w \in
        { "jpg", "jpeg", "png", "gif", "bmp", "ico", "webp", "tif", "tiff",
          "mp4", "avi", "mov", "wmv", "flv", "mkv", "webm",
          "mp3", "wav", "ogg", "m4a", "flac",
          "pdf", "zip", "rar", "7z", "tar", "gz", "bz2", "xz",
          "exe", "dll", "so", "dylib", "app",
          "iso", "img", "dmg",
          "doc", "docx", "ppt", "pptx", "xls", "xlsx",
          "odt", "ods", "odp",
          "eot", "otf", "ttf", "woff", "woff2",
          "jar", "class",
          "pyc", "pyo",
          "deb", "rpm", "msi", "pkg" } }

\* A loaded `ignore` instance is the set of normalised paths its ignores()
\* answers true for; no instance (null) is loaded = FALSE.
NoMatcher == [loaded |-> FALSE, ignored |-> {}]
Matcher(S) == [loaded |-> TRUE, ignored |-> S]

\* gitignoreInstance.ignores(normalizedPath)
Ignores(instance, normalizedPath) == normalizedPath \in instance.ignored

\* pathParts[0] === '.git'
FirstIsGit(pathParts) == pathParts # <<>> /\ pathParts[1] = <<Dot, "git">>

\* pathParts.some(part => set.has(part))
SomePartIn(pathParts, set) == \E i \in 1..Len(pathParts) : pathParts[i] \in set

\* shouldIgnore with the .git special case falling through to the other rules
\* instead of returning false
ShouldIgnoreGitFallsThrough(relativePath, options) ==
    LET normalizedPath == NormalizeSeparators(relativePath)
        pathParts == NonEmptyParts(Split(normalizedPath))
    IN IF FirstIsGit(pathParts) /\ options.ignoreGit THEN TRUE
       ELSE \/ SomePartIn(pathParts, options.customBlacklist)
            \/ normalizedPath \in options.customBlacklist
            \/ SomePartIn(pathParts, DEFAULT_BLACKLIST)
            \/ /\ options.useGitignore
               /\ options.gitignoreInstance.loaded
               /\ Ignores(options.gitignoreInstance, normalizedPath)
            \/ toLowerCase(extname(normalizedPath)) \in BINARY_EXTENSIONS

\* shouldIgnore with the default blacklist matched against the last segment only
ShouldIgnoreLastSegmentOnly(relativePath, options) ==
    LET normalizedPath == NormalizeSeparators(relativePath)
        pathParts == NonEmptyParts(Split(normalizedPath))
    IN IF FirstIsGit(pathParts) THEN options.ignoreGit
       ELSE IF options.customBlacklist # {}
               /\ (\/ SomePartIn(pathParts, options.customBlacklist)
                   \/ normalizedPath \in options.customBlacklist)
            THEN TRUE
       ELSE IF pathParts # <<>> /\ pathParts[Len(pathParts)] \in DEFAULT_BLACKLIST THEN TRUE
       ELSE IF /\ options.useGitignore
               /\ options.gitignoreInstance.loaded
               /\ Ignores(options.gitignoreInstance, normalizedPath)
            THEN TRUE
       ELSE toLowerCase(extname(normalizedPath)) \in BINARY_EXTENSIONS

\* shouldIgnore(relativePath, {useGitignore, ignoreGit, customBlacklist, gitignoreInstance})
shouldIgnore(relativePath, options) ==
    LET normalizedPath == NormalizeSeparators(relativePath)
        pathParts == NonEmptyParts(Split(normalizedPath))
    IN \* 1. the .git directory
       IF FirstIsGit(pathParts) THEN options.ignoreGit
       \* 2. the custom blacklist: any part of the path, or the full path
       ELSE IF options.customBlacklist # {}
               /\ (\/ SomePartIn(pathParts, options.customBlacklist)
                   \/ normalizedPath \in options.customBlacklist)
            THEN TRUE
       \* 3. the default blacklist: any part of the path
       ELSE IF SomePartIn(pathParts, DEFAULT_BLACKLIST) THEN TRUE
       \* 4. the .gitignore rules
       ELSE IF /\ options.useGitignore
               /\ options.gitignoreInstance.loaded
               /\ Ignores(options.gitignoreInstance, normalizedPath)
            THEN TRUE
       \* 5. binary file extensions
       ELSE toLowerCase(extname(normalizedPath)) \in BINARY_EXTENSIONS

----------------------------------------------------------------------------
(* shouldIgnore applied to bounded inputs *)

GitName == <<Dot, "git">>

\* the names a path handed to shouldIgnore is built from
NameInputs ==
    { GitName, <<"bin">>, <<"src">>, <<"a", Dot, "PNG">>, <<"main", Dot, "js">>,
      <<Dot, "png">> }

RECURSIVE SeqsUpTo(_, _)
\* the sequences over S of length 1..n
SeqsUpTo(S, n) ==
    IF n = 0 THEN {}
    ELSE LET shorter == SeqsUpTo(S, n - 1)
         IN {<<x>> : x \in S} \cup shorter \cup {Append(q, x) : q \in shorter, x \in S}

PathInputs ==
    LET joined == {JoinWith(names, s) : names \in SeqsUpTo(NameInputs, MaxSegs),
                                        s \in {Slash, BackSlash}}
    IN joined \cup {<<Slash>> \o p : p \in joined} \cup {p \o <<Slash>> : p \in joined}

SrcMain == <<"src", Slash, "main", Dot, "js">>

CustomInputs == { {}, {<<"src">>}, {SrcMain}, {GitName} }

MatcherInputs == { NoMatcher, Matcher({<<"src">>}), Matcher({SrcMain, GitName}) }

OptionInputs ==
    [useGitignore : BOOLEAN, ignoreGit : BOOLEAN, customBlacklist : CustomInputs,
     gitignoreInstance : MatcherInputs]

DefaultOptions ==
    [useGitignore |-> TRUE, ignoreGit |-> TRUE, customBlacklist |-> {},
     gitignoreInstance |-> NoMatcher]

FilterInit ==
    /\ fltCalled = FALSE
    /\ fltPath \in PathInputs
    /\ fltOptions \in OptionInputs
    /\ fltResult = FALSE

\* no call of shouldIgnore is under study
FilterIdle ==
    /\ fltCalled = FALSE
    /\ fltPath = <<>>
    /\ fltOptions = DefaultOptions
    /\ fltResult = FALSE

\* the call shouldIgnore(relativePath, options) returns
CallShouldIgnore ==
    /\ ~fltCalled
    /\ fltCalled' = TRUE
    /\ fltResult' = shouldIgnore(fltPath, fltOptions)
    /\ UNCHANGED <<fltPath, fltOptions>>
    /\ UNCHANGED fltOthers

----------------------------------------------------------------------------
(* core/file-lister.js on a bounded file system *)

\* The files a modelled tree is drawn from, each the sequence of its names
\* from the root.  The directories of a tree are the proper prefixes of its files.
FileUniverse ==
    { << <<"a", Dot, "bin">> >>,
      << <<"node_modules">>, <<"x", Dot, "js">> >>,
      << <<"src">>, <<"main", Dot, "js">> >>,
      << GitName, <<"HEAD">> >>,
      << GitName, <<"logo", Dot, "png">> >>,
      << <<"src">>, <<"logo", Dot, "PNG">> >>,
      << <<"src">>, <<"bin">>, <<"tool", Dot, "js">> >> }

Prefixes(f) == {SubSeq(f, 1, n) : n \in 1..(Len(f) - 1)}

\* the directories below the root
DirsOf(files) == UNION {Prefixes(f) : f \in files}

Root == <<>>

\* fs.readdir(dir, {withFileTypes: true}): the names in dir, each a directory or a file
EntriesOf(files, dir) ==
    {SubSeq(f, 1, Len(dir) + 1) : f \in {g \in files \cup DirsOf(files) :
                                          /\ Len(g) > Len(dir)
                                          /\ SubSeq(g, 1, Len(dir)) = dir}}

\* path.relative(rootPath, path.join(startPath, item.name))
RelativePath(entry, s) == JoinWith(entry, s)

\* the <root>/.gitignore file: absent (ENOENT), unreadable (another error) or present
GitignoreFiles ==
    { [state |-> "absent", ignored |-> {}],
      [state |-> "unreadable", ignored |-> {}],
      [state |-> "present", ignored |-> {<<"src">>}],
      [state |-> "present", ignored |-> {SrcMain}] }

\* loadGitignore(directoryPath)
loadGitignore(file) ==
    IF file.state = "present" THEN Matcher(file.ignored) ELSE NoMatcher

\* the options listFiles works with when it is given none
DefaultListOptions == [useGitignore |-> TRUE, ignoreGit |-> TRUE, customBlacklist |-> {}]

ListOptionInputs ==
    [useGitignore : BOOLEAN, ignoreGit : BOOLEAN,
     customBlacklist : { {}, {<<"src">>, <<"a", Dot, "bin">>} }]

\* the filterOptions object listFiles builds
FilterOptions ==
    [useGitignore |-> lsOptions.useGitignore, ignoreGit |-> lsOptions.ignoreGit,
     customBlacklist |-> lsOptions.customBlacklist,
     gitignoreInstance |-> gitignoreInstance]

\* A frame of listFilesRecursive: the directory, whether readdir has answered,
\* the items the loop has not visited yet, and filesList
Frame(dir) == [dir |-> dir, read |-> FALSE, items |-> {}, filesList |-> <<>>]

ListInit ==
    /\ sep \in {Slash, BackSlash}
    /\ fsFiles \in {F \in SUBSET FileUniverse : Cardinality(F) <= MaxFiles}
    /\ giFile \in GitignoreFiles
    /\ lsOptions \in ListOptionInputs
    /\ gitignoreInstance = NoMatcher
    /\ lsPc = "start"
    /\ lsStack = <<>>
    /\ lsReturned = <<>>
    /\ lsError = "none"
    /\ lsReadDirs = {}
    /\ lsFailed = {}

\* listFiles up to its call of listFilesRecursive on the root
ListFilesStart ==
    /\ lsPc = "start"
    /\ gitignoreInstance' = IF lsOptions.useGitignore THEN loadGitignore(giFile)
                            ELSE NoMatcher
    /\ lsStack' = <<Frame(Root)>>
    /\ lsPc' = "walk"
    /\ UNCHANGED <<sep, fsFiles, giFile, lsOptions, lsReturned, lsError, lsReadDirs, lsFailed>>
    /\ UNCHANGED lsOthers

Top == lsStack[Len(lsStack)]
Below == SubSeq(lsStack, 1, Len(lsStack) - 1)

\* ReturnTo with the caller dropping subFiles (filesList.concat(subFiles)
\* without the assignment)
ReturnToDropsSubFiles(stack, list) == stack

\* the stack once the top frame has returned list to its caller, which
\* concatenates it to its own filesList
ReturnTo(stack, list) ==
    LET n == Len(stack)
    IN [stack EXCEPT ![n].filesList = @ \o list]

\* await fs.readdir(startPath) answers
ReadDirOk ==
    /\ lsPc = "walk"
    /\ ~Top.read
    /\ lsStack' = [lsStack EXCEPT ![Len(lsStack)].read = TRUE,
                                  ![Len(lsStack)].items = EntriesOf(fsFiles, Top.dir)]
    /\ lsReadDirs' = lsReadDirs \cup {Top.dir}
    /\ UNCHANGED <<sep, fsFiles, giFile, lsOptions, gitignoreInstance, lsPc, lsReturned,
                   lsError, lsFailed>>
    /\ UNCHANGED lsOthers

\* a catch block that swallows whatever readdir throws
SwallowedAlways(code) == TRUE

\* whether the catch block swallows the error
Swallowed(code) == code \in {"EACCES", "EPERM"}

\* await fs.readdir(startPath) throws: the frame's catch block returns its
\* (empty) filesList on a permission error and rethrows anything else; a
\* rethrown error passes through the catch block of every caller
ReadDirFails ==
    /\ lsPc = "walk"
    /\ ~Top.read
    /\ \E code \in {"EACCES", "EPERM", "EIO"} :
        /\ lsReadDirs' = lsReadDirs \cup {Top.dir}
        /\ lsFailed' = lsFailed \cup {[dir |-> Top.dir, code |-> code]}
        /\ IF Swallowed(code)
           THEN IF Len(lsStack) = 1
                THEN /\ lsPc' = "resolved"
                     /\ lsReturned' = Top.filesList
                     /\ lsStack' = <<>>
                     /\ UNCHANGED lsError
                ELSE /\ lsStack' = ReturnTo(Below, Top.filesList)
                     /\ UNCHANGED <<lsPc, lsReturned, lsError>>
           ELSE /\ lsPc' = "rejected"
                /\ lsError' = code
                /\ lsStack' = <<>>
                /\ UNCHANGED lsReturned
    /\ UNCHANGED <<sep, fsFiles, giFile, lsOptions, gitignoreInstance>>
    /\ UNCHANGED lsOthers

\* SkipsItem with the ignore check applied to files only, directories always entered
SkipsItemFilesOnly(relativePath, options, isDirectory) ==
    ~isDirectory /\ shouldIgnore(relativePath, options)

\* whether the loop skips the item (continue)
SkipsItem(relativePath, options, isDirectory) == shouldIgnore(relativePath, options)

\* one iteration of the loop over the items of the directory
VisitItem ==
    /\ lsPc = "walk"
    /\ Top.read
    /\ \E item \in Top.items :
        LET relativePath == RelativePath(item, sep)
            isDirectory == item \in DirsOf(fsFiles)
            n == Len(lsStack)
            rest == [lsStack EXCEPT ![n].items = @ \ {item}]
        IN IF SkipsItem(relativePath, FilterOptions, isDirectory)
           THEN lsStack' = rest
           ELSE IF isDirectory
           THEN lsStack' = Append(rest, Frame(item))
           ELSE lsStack' = [rest EXCEPT ![n].filesList = Append(@, relativePath)]
    /\ UNCHANGED <<sep, fsFiles, giFile, lsOptions, gitignoreInstance, lsPc, lsReturned,
                   lsError, lsReadDirs, lsFailed>>
    /\ UNCHANGED lsOthers

\* the loop is over: return filesList
ReturnList ==
    /\ lsPc = "walk"
    /\ Top.read
    /\ Top.items = {}
    /\ IF Len(lsStack) = 1
       THEN /\ lsPc' = "resolved"
            /\ lsReturned' = Top.filesList
            /\ lsStack' = <<>>
       ELSE /\ lsStack' = ReturnTo(Below, Top.filesList)
            /\ UNCHANGED <<lsPc, lsReturned>>
    /\ UNCHANGED <<sep, fsFiles, giFile, lsOptions, gitignoreInstance, lsError,
                   lsReadDirs, lsFailed>>
    /\ UNCHANGED lsOthers

----------------------------------------------------------------------------
(* tools/get_file_tree.js and tools/merge_content.js: from the parameters of a
   request to the file list *)

\* the values a boolean parameter of a request has: left out, or given
Undefined == "undefined"
BoolParams == {Undefined, "true", "false"}

\* a || b on these values: a when a is truthy, else b
JsOr(a, b) == IF a \in {Undefined, "false"} THEN b ELSE a

\* the requests: the tool, and its parameters use_gitignore, ignore_git and
\* custom_blacklist (left out, or an array, which is truthy even when empty)
NoList == [given |-> FALSE, list |-> {}]
ToolInputs ==
    [tool : {"get_file_tree", "merge_content"},
     use_gitignore : BoolParams, ignore_git : BoolParams,
     custom_blacklist : {NoList, [given |-> TRUE, list |-> {<<"src">>}]},
     pc : {"called"}]

NoToolCall ==
    [tool |-> "none", use_gitignore |-> Undefined, ignore_git |-> Undefined,
     custom_blacklist |-> NoList, pc |-> "none"]

ToolIdle == toolCall = NoToolCall

\* the options object handleRequest hands to listFiles
ToolListOptions(parameters) ==
    [useGitignore |-> JsOr(parameters.use_gitignore, "false") = "true",
     ignoreGit |-> JsOr(parameters.ignore_git, "true") = "true",
     customBlacklist |-> IF parameters.custom_blacklist.given
                         THEN parameters.custom_blacklist.list ELSE {}]

\* a request for a directory has arrived
ToolInit ==
    /\ toolCall \in ToolInputs
    /\ sep \in {Slash, BackSlash}
    /\ fsFiles \in {F \in SUBSET FileUniverse : Cardinality(F) <= MaxFiles}
    /\ giFile \in GitignoreFiles
    /\ lsOptions = DefaultListOptions
    /\ gitignoreInstance = NoMatcher
    /\ lsPc = "start"
    /\ lsStack = <<>>
    /\ lsReturned = <<>>
    /\ lsError = "none"
    /\ lsReadDirs = {}
    /\ lsFailed = {}

\* handleRequest, for a path that is a directory, up to the first await of
\* the listFiles it calls
ToolListFiles ==
    /\ toolCall.pc = "called"
    /\ lsPc = "start"
    /\ toolCall' = [toolCall EXCEPT !.pc = "listing"]
    /\ lsOptions' = ToolListOptions(toolCall)
    /\ gitignoreInstance' = IF lsOptions'.useGitignore THEN loadGitignore(giFile)
                            ELSE NoMatcher
    /\ lsStack' = <<Frame(Root)>>
    /\ lsPc' = "walk"
    /\ UNCHANGED <<sep, fsFiles, giFile, lsReturned, lsError, lsReadDirs, lsFailed>>
    /\ UNCHANGED <<fltVars, bpVars, envVars, fcVars, tcVars, rdVars, acVars>>

----------------------------------------------------------------------------
(* tools/analyze_code.js: from a request for a directory to the files it reads
   and reports *)

\* getExtensionsForLanguage(language)
getExtensionsForLanguage(language) ==
    LET l == LowerToken(language)
    IN CASE l = "javascript" -> {<<Dot, "js">>, <<Dot, "jsx">>, <<Dot, "mjs">>}
         [] l = "typescript" -> {<<Dot, "ts">>, <<Dot, "tsx">>}
         [] l = "python" -> {<<Dot, "py">>, <<Dot, "pyw">>}
         [] l = "json" -> {<<Dot, "json">>}
         [] OTHER -> {}

\* the language parameter of a request: left out, or a name
LanguageInputs == {Undefined, "javascript", "python", "cobol"}

NoAnalysis ==
    [pc |-> "none", language |-> Undefined, filesToProcess |-> {},
     totalFiles |-> 0, fileBreakdown |-> {}]

AnalyzeIdle == analysis = NoAnalysis

\* a request for a directory has arrived; listFiles is called on the same
\* directory with no options, for reference
AnalyzeInit ==
    /\ analysis \in {[NoAnalysis EXCEPT !.pc = "called", !.language = l] :
                        l \in LanguageInputs}
    /\ sep \in {Slash, BackSlash}
    /\ fsFiles \in {F \in SUBSET FileUniverse : Cardinality(F) <= MaxFiles}
    /\ giFile \in GitignoreFiles
    /\ lsOptions = DefaultListOptions
    /\ gitignoreInstance = NoMatcher
    /\ lsPc = "start"
    /\ lsStack = <<>>
    /\ lsReturned = <<>>
    /\ lsError = "none"
    /\ lsReadDirs = {}
    /\ lsFailed = {}

\* the listFilesRecursive of analyze_code.js on the whole tree: every
\* directory is entered and every file is pushed, as its path relative to the root
AnalyzeListFilesRecursive(files, s) == {RelativePath(f, s) : f \in files}

\* the filter by language, applied when the parameter is truthy
FilterByLanguage(files, language) ==
    IF language = Undefined THEN files
    ELSE {file \in files : toLowerCase(extname(file)) \in getExtensionsForLanguage(language)}

\* handleRequest, for a path that is a directory, up to its filesToProcess
AnalyzeListFiles ==
    /\ analysis.pc = "called"
    /\ analysis' = [analysis EXCEPT
                       !.pc = "listed",
                       !.filesToProcess =
                           FilterByLanguage(AnalyzeListFilesRecursive(fsFiles, sep),
                                            analysis.language)]
    /\ UNCHANGED <<fltVars, lsVars, bpVars, envVars, fcVars, tcVars, rdVars, toolVars>>

\* a readdir of the walk throws: nothing catches it before handleRequest's own
\* catch block, which throws
AnalyzeListFails ==
    /\ analysis.pc = "called"
    /\ analysis' = [analysis EXCEPT !.pc = "threw"]
    /\ UNCHANGED <<fltVars, lsVars, bpVars, envVars, fcVars, tcVars, rdVars, toolVars>>

\* the rest of handleRequest: an empty result for no files; otherwise readFiles
\* is handed every path of filesToProcess, and the files whose read succeeded
\* make the fileBreakdown
AnalyzeReadFiles ==
    /\ analysis.pc = "listed"
    /\ \E readable \in SUBSET analysis.filesToProcess :
        analysis' = [analysis EXCEPT
                        !.pc = "returned",
                        !.totalFiles = Cardinality(analysis.filesToProcess),
                        !.fileBreakdown = readable]
    /\ UNCHANGED <<fltVars, lsVars, bpVars, envVars, fcVars, tcVars, rdVars, toolVars>>

----------------------------------------------------------------------------
(* core/batch-processor.js *)

\* this.stats; startTime and endTime are null (FALSE) or a time (TRUE)
NewStats ==
    [totalTasks |-> 0, completedTasks |-> 0, failedTasks |-> 0,
     startTime |-> FALSE, endTime |-> FALSE]

\* constructor(concurrency)
NewBatchProcessor(concurrency) ==
    [concurrency |-> concurrency, running |-> 0, queue |-> <<>>, stats |-> NewStats]

\* what taskFn makes of an item
ResultOf(item) == <<"result", item>>
ErrorOf(item) == <<"error", item>>

\* an element of results that was never assigned
Hole == [hole |-> TRUE]

\* A task handed to add.  batch = 0: a direct call of add; otherwise the
\* wrapper processBatch builds for items[index].  kind: "async", a task that
\* returns a promise, or "throws", a task function that throws when called.
\* state: queued, running, settled (the task's promise has settled),
\* handled (the then/catch handler has run), done (the finally handler has
\* run), cleared (rejected by clearQueue), threw.  promise: the promise add
\* returned.
NewTask(batch, index, item, kind) ==
    [batch |-> batch, index |-> index, item |-> item, kind |-> kind,
     state |-> "queued", outcome |-> "none", promise |-> "pending"]

\* resolve / reject of a promise: only a pending promise changes
Settle(promise, how) == IF promise = "pending" THEN how ELSE promise

\* processQueue without the test of running against concurrency
ProcessQueueUnbounded(S) ==
    IF S.bp.queue = <<>> THEN [S EXCEPT !.threw = FALSE]
    ELSE LET id == Head(S.bp.queue)
         IN [bp |-> [S.bp EXCEPT !.queue = Tail(@), !.running = @ + 1],
             tasks |-> [S.tasks EXCEPT ![id].state = "running"],
             threw |-> FALSE]

\* processQueue(): S holds the instance and the tasks; threw tells whether the
\* call of task() threw out of processQueue
ProcessQueue(S) ==
    IF S.bp.running >= S.bp.concurrency \/ S.bp.queue = <<>>
    THEN [S EXCEPT !.threw = FALSE]
    ELSE LET id == Head(S.bp.queue)
             throws == S.tasks[id].kind = "throws"
             st == S.bp.stats
             stats1 == IF ~st.startTime /\ st.completedTasks = 0
                       THEN [st EXCEPT !.startTime = TRUE] ELSE st
         IN [bp |-> [S.bp EXCEPT !.queue = Tail(@), !.running = @ + 1, !.stats = stats1],
             tasks |-> [S.tasks EXCEPT ![id].state = IF throws THEN "threw" ELSE "running"],
             threw |-> throws]

\* add(task): the task becomes the next element of tasks.  An exception out of
\* processQueue rejects the promise being constructed.
AddTask(S, task) ==
    LET id == Len(S.tasks) + 1
        pushed == [bp |-> [S.bp EXCEPT !.stats.totalTasks = @ + 1,
                                       !.queue = Append(@, id)],
                   tasks |-> Append(S.tasks, task),
                   threw |-> FALSE]
        after == ProcessQueue(pushed)
    IN IF after.threw
       THEN [after EXCEPT !.tasks[id].promise = Settle(@, "rejected"), !.threw = FALSE]
       ELSE after

RECURSIVE AddItems(_, _, _, _)
\* items.map((item, index) => this.add(...)) from index on (1-based here)
AddItems(S, batch, items, index) ==
    IF index > Len(items) THEN S
    ELSE AddItems(AddTask(S, NewTask(batch, index, items[index], "async")),
                  batch, items, index + 1)

\* A processBatch call: its items, whether a progressCallback was given, the
\* results array, the completed counter, the arguments handed to the
\* callback, the indexes in the order their taskFn settled, and whether the
\* call has returned (and what)
NewBatch(items, callback) ==
    [items |-> items, callback |-> callback,
     results |-> [i \in 1..Len(items) |-> Hole],
     completed |-> 0, progress |-> <<>>, order |-> <<>>,
     state |-> IF items = <<>> THEN "resolved" ELSE "pending",
     returned |-> <<>>]

BatchInit ==
    /\ bp \in {NewBatchProcessor(c) : c \in 1..MaxConcurrency}
    /\ tasks = <<>>
    /\ batches = <<>>
    /\ bpCleared = 0

BatchIdle ==
    /\ bp = NewBatchProcessor(1)
    /\ tasks = <<>>
    /\ batches = <<>>
    /\ bpCleared = 0

\* a direct call add(task)
Add ==
    /\ Len(tasks) < MaxTasks
    /\ \E kind \in {"async", "throws"} :
        LET after == AddTask([bp |-> bp, tasks |-> tasks, threw |-> FALSE],
                             NewTask(0, 0, 0, kind))
        IN /\ bp' = after.bp
           /\ tasks' = after.tasks
    /\ UNCHANGED <<batches, bpCleared>>
    /\ UNCHANGED bpOthers

\* the items processBatch is called with: n distinct items, none equal to its index
ItemInputs == {[i \in 1..n |-> 10 * (n + 1 - i)] : n \in 0..MaxBatchItems}

\* processBatch(items, taskFn, progressCallback) up to its await
ProcessBatch ==
    /\ Len(batches) < MaxBatches
    /\ \E items \in ItemInputs, callback \in BOOLEAN :
        /\ Len(tasks) + Len(items) <= MaxTasks
        /\ batches' = Append(batches, NewBatch(items, callback))
        /\ IF items = <<>>
           THEN UNCHANGED <<bp, tasks>>
           ELSE LET reset == [bp |-> [bp EXCEPT !.stats = NewStats],
                              tasks |-> tasks, threw |-> FALSE]
                    after == AddItems(reset, Len(batches) + 1, items, 1)
                IN /\ bp' = after.bp
                   /\ tasks' = after.tasks
    /\ UNCHANGED bpCleared
    /\ UNCHANGED bpOthers

\* Math.round(a / b) for naturals a and b > 0
Round(a, b) == (2 * a + b) \div (2 * b)

\* the argument the wrapper of processBatch hands to progressCallback
ProgressOf(batch, completed, index) ==
    [completed |-> completed,
     total |-> Len(batch.items),
     percent |-> Round(completed * 100, Len(batch.items)),
     item |-> batch.items[index],
     index |-> index]

\* the wrapper of processBatch storing at the position of completion
\* instead of the item's index
RecordAtCompletion(batch, index, ok, item) ==
    LET done == Cardinality({i \in 1..Len(batch.results) : batch.results[i] # Hole})
    IN IF ok
       THEN [batch EXCEPT !.completed = @ + 1,
                          !.order = Append(@, index),
                          !.results[done + 1] = [success |-> TRUE, result |-> ResultOf(item)]]
       ELSE [batch EXCEPT !.order = Append(@, index),
                          !.results[done + 1] = [success |-> FALSE, error |-> ErrorOf(item)]]

\* the wrapper of processBatch once taskFn(item, index) has settled
Record(batch, index, ok, item) ==
    IF ok
    THEN LET completed == batch.completed + 1
         IN [batch EXCEPT !.completed = completed,
                          !.progress = IF batch.callback
                                       THEN Append(@, ProgressOf(batch, completed, index))
                                       ELSE @,
                          !.order = Append(@, index),
                          !.results[index] = [success |-> TRUE, result |-> ResultOf(item)]]
    ELSE [batch EXCEPT !.order = Append(@, index),
                       !.results[index] = [success |-> FALSE, error |-> ErrorOf(item)]]

\* the promise of a running task settles, fulfilled (ok) or rejected
TaskSettles ==
    \E id \in 1..Len(tasks), ok \in BOOLEAN :
        /\ tasks[id].state = "running"
        /\ tasks' = [tasks EXCEPT ![id].state = "settled",
                                  ![id].outcome = IF ok THEN "ok" ELSE "fail"]
        /\ IF tasks[id].batch = 0
           THEN UNCHANGED batches
           ELSE batches' = [batches EXCEPT ![tasks[id].batch] =
                               Record(@, tasks[id].index, ok, tasks[id].item)]
        /\ UNCHANGED <<bp, bpCleared>>
        /\ UNCHANGED bpOthers

\* the .then / .catch handler of processQueue
HandleSettled ==
    \E id \in 1..Len(tasks) :
        /\ tasks[id].state = "settled"
        /\ IF tasks[id].outcome = "ok"
           THEN /\ bp' = [bp EXCEPT !.stats.completedTasks = @ + 1]
                /\ tasks' = [tasks EXCEPT ![id].state = "handled",
                                          ![id].promise = Settle(@, "fulfilled")]
           ELSE /\ bp' = [bp EXCEPT !.stats.failedTasks = @ + 1]
                /\ tasks' = [tasks EXCEPT ![id].state = "handled",
                                          ![id].promise = Settle(@, "rejected")]
        /\ UNCHANGED <<batches, bpCleared>>
        /\ UNCHANGED bpOthers

\* a handler that runs after a fulfilled task only, as a then in the place of
\* the finally would
FinallyOfFulfilledOnly(id) ==
    IF tasks[id].outcome = "fail"
    THEN [bp |-> bp, tasks |-> [tasks EXCEPT ![id].state = "done"], threw |-> FALSE]
    ELSE LET running == bp.running - 1
             ended == bp.queue = <<>> /\ running = 0
             before == [bp |-> [bp EXCEPT !.running = running,
                                          !.stats.endTime = IF ended THEN TRUE ELSE @],
                        tasks |-> [tasks EXCEPT ![id].state = "done"],
                        threw |-> FALSE]
         IN ProcessQueue(before)

\* the .finally handler of processQueue for task id: the instance and the
\* tasks after it
FinallyOf(id) ==
    LET running == bp.running - 1
        ended == bp.queue = <<>> /\ running = 0
        before == [bp |-> [bp EXCEPT !.running = running,
                                     !.stats.endTime = IF ended THEN TRUE ELSE @],
                   tasks |-> [tasks EXCEPT ![id].state = "done"],
                   threw |-> FALSE]
    IN ProcessQueue(before)

\* the .finally handler of processQueue
Finally ==
    \E id \in 1..Len(tasks) :
        /\ tasks[id].state = "handled"
        /\ LET after == FinallyOf(id)
           IN /\ bp' = after.bp
              /\ tasks' = after.tasks
        /\ UNCHANGED <<batches, bpCleared>>
        /\ UNCHANGED bpOthers

\* clearQueue() that also gives up the slots of the tasks it finds executing
ClearQueueResetsRunning ==
    /\ bpCleared' = Len(bp.queue)
    /\ tasks' = [id \in 1..Len(tasks) |->
                    IF \E k \in 1..Len(bp.queue) : bp.queue[k] = id
                    THEN [tasks[id] EXCEPT !.state = "cleared",
                                           !.promise = Settle(@, "rejected")]
                    ELSE tasks[id]]
    /\ bp' = [bp EXCEPT !.queue = <<>>, !.running = 0]
    /\ UNCHANGED batches
    /\ UNCHANGED bpOthers

\* clearQueue()
ClearQueue ==
    /\ bpCleared' = Len(bp.queue)
    /\ tasks' = [id \in 1..Len(tasks) |->
                    IF \E k \in 1..Len(bp.queue) : bp.queue[k] = id
                    THEN [tasks[id] EXCEPT !.state = "cleared",
                                           !.promise = Settle(@, "rejected")]
                    ELSE tasks[id]]
    /\ bp' = [bp EXCEPT !.queue = <<>>]
    /\ UNCHANGED batches
    /\ UNCHANGED bpOthers

\* the tasks of processBatch call b
TasksOf(b) == {id \in 1..Len(tasks) : tasks[id].batch = b}

\* await Promise.all(promises) is over: return results
ResolveBatch ==
    \E b \in 1..Len(batches) :
        /\ batches[b].state = "pending"
        /\ \A id \in TasksOf(b) : tasks[id].promise # "pending"
        /\ batches' = [batches EXCEPT ![b].state = "resolved",
                                      ![b].returned = batches[b].results]
        /\ UNCHANGED <<bp, tasks, bpCleared>>
        /\ UNCHANGED bpOthers

----------------------------------------------------------------------------
(* The clock and the files on disk *)

\* file contents: strings, as sequences of characters
Contents == { <<"a">>, <<"b", "b">> }

Paths == 1..MaxPaths

\* the files that something other than this program writes or removes
Mutable == 1..MaxMutable

\* A file: status "ok", "missing" (fs.stat and fs.readFile fail) or "denied"
\* (fs.stat answers, fs.readFile fails); its content and modification time
NewFile == [status |-> "ok", content |-> <<"a">>, mtime |-> 0]

EnvInit ==
    /\ now = 1
    /\ disk = [p \in Paths |-> NewFile]
    /\ fsMods = 0

\* Date.now() advances
Tick ==
    /\ now < MaxTime
    /\ now' = now + 1
    /\ UNCHANGED <<disk, fsMods>>
    /\ UNCHANGED envOthers

\* a file is written: new content, modification time now
ModifyFile ==
    /\ fsMods < MaxMods
    /\ \E p \in Mutable, content \in Contents :
        /\ content # disk[p].content
        /\ disk' = [disk EXCEPT ![p] = [status |-> "ok", content |-> content, mtime |-> now]]
    /\ fsMods' = fsMods + 1
    /\ UNCHANGED now
    /\ UNCHANGED envOthers

\* a file is removed, or made unreadable
BreakFile ==
    /\ fsMods < MaxMods
    /\ \E p \in Mutable, status \in {"missing", "denied"} :
        /\ disk[p].status = "ok"
        /\ disk' = [disk EXCEPT ![p].status = status]
    /\ fsMods' = fsMods + 1
    /\ UNCHANGED now
    /\ UNCHANGED envOthers

\* fs.stat(path) answers (otherwise it throws)
StatOk(p) == disk[p].status # "missing"
\* fs.readFile(path, 'utf8') answers (otherwise it throws)
ReadOk(p) == disk[p].status = "ok"

----------------------------------------------------------------------------
(* core/file-cache.js *)

\* generateKey(filePath): the md5 digest of the path, distinct paths taken to
\* have distinct digests
generateKey(filePath) == <<"md5", filePath>>

NewFileCacheStats == [hits |-> 0, misses |-> 0, evictions |-> 0, size |-> 0, bytesStored |-> 0]

\* constructor({maxSize, ttl}); cache is the Map, as its entries in insertion order
NewFileCache(maxSize, ttl) ==
    [maxSize |-> maxSize, ttl |-> ttl, cache |-> <<>>, stats |-> NewFileCacheStats]

\* the positions in the Map of the entry stored under key (none or one)
Positions(cache, key) == {i \in 1..Len(cache) : cache[i].key = key}

\* Map.prototype.has
Has(cache, key) == Positions(cache, key) # {}

\* Map.prototype.get, for a key the Map has
EntryOf(cache, key) == cache[CHOOSE i \in Positions(cache, key) : TRUE]

\* Map.prototype.delete
Delete(cache, key) == SelectSeq(cache, LAMBDA e : e.key # key)

\* Map.prototype.set: the entry of a key the Map has is replaced where it
\* stands, a new key goes last
MapSet(cache, entry) ==
    IF Has(cache, entry.key)
    THEN [i \in 1..Len(cache) |-> IF cache[i].key = entry.key THEN entry ELSE cache[i]]
    ELSE Append(cache, entry)

CacheEntry(key, content, timestamp, mtime) ==
    [key |-> key, content |-> content, timestamp |-> timestamp, mtime |-> mtime,
     size |-> Len(content)]

\* set evicting the most recently inserted entry instead of the oldest
FileCacheSetEvictNewest(c, entry) ==
    LET full == Len(c.cache) >= c.maxSize
        c1 == IF full
              THEN [c EXCEPT !.cache = SubSeq(@, 1, Len(@) - 1),
                             !.stats.evictions = @ + 1,
                             !.stats.bytesStored = @ - Len(c.cache[Len(c.cache)].content)]
              ELSE c
        cache2 == MapSet(c1.cache, entry)
    IN [c1 EXCEPT !.cache = cache2,
                  !.stats.size = Len(cache2),
                  !.stats.bytesStored = @ + Len(entry.content)]

\* set(key, value) on instance c
FileCacheSet(c, entry) ==
    LET full == Len(c.cache) >= c.maxSize
        c1 == IF full
              THEN [c EXCEPT !.cache = Tail(@),
                             !.stats.evictions = @ + 1,
                             !.stats.bytesStored = @ - Len(Head(c.cache).content)]
              ELSE c
        cache2 == MapSet(c1.cache, entry)
    IN [c1 EXCEPT !.cache = cache2,
                  !.stats.size = Len(cache2),
                  !.stats.bytesStored = @ + Len(entry.content)]

\* the block of get that drops the entry it found: delete, evictions++, size, bytesStored
FileCacheDrop(c, key, cacheEntry) ==
    LET cache2 == Delete(c.cache, key)
    IN [c EXCEPT !.cache = cache2,
                 !.stats.evictions = @ + 1,
                 !.stats.size = Len(cache2),
                 !.stats.bytesStored = @ - Len(cacheEntry.content)]

\* A call of get(filePath).  pc: idle, stat1 (awaiting the stat that checks a
\* fresh entry), read (awaiting readFile), stat2 (awaiting the stat after the
\* read), returned, threw.  entry: the cacheEntry the call found.  seen: the
\* mtime the first stat answered, -1 while there is none, -2 when it threw.
\* at: Date.now() when the call began.  hits, misses, evictions: by how much
\* the steps of this call have moved the counters of the instance; via tells
\* whether the returned content came from the cache or from disk.  owner: the
\* task of readFiles that made the call, 0 for a direct call.
NoEntry == CacheEntry(<<"md5", 0>>, <<>>, 0, 0)
IdleCall ==
    [pc |-> "idle", path |-> 0, owner |-> 0, at |-> 0, found |-> FALSE, entry |-> NoEntry,
     seen |-> -1, content |-> <<>>, result |-> <<>>, via |-> "none",
     hits |-> 0, misses |-> 0, evictions |-> 0]

\* call, with the movement of the counters from instance c to instance c2 added
Counted(call, c, c2) ==
    [call EXCEPT !.hits = @ + (c2.stats.hits - c.stats.hits),
                 !.misses = @ + (c2.stats.misses - c.stats.misses),
                 !.evictions = @ + (c2.stats.evictions - c.stats.evictions)]

\* the freshness test with <= in place of <
FreshInclusive(c, cacheEntry) == now - cacheEntry.timestamp <= c.ttl

\* the freshness test of both get methods: Date.now() - entry.timestamp < this.ttl
Fresh(c, cacheEntry) == now - cacheEntry.timestamp < c.ttl

\* the test that makes a fresh entry a hit, with < in place of <=
UnmodifiedStrict(mtimeMs, cacheEntry) == mtimeMs < cacheEntry.mtime

\* the test that makes a fresh entry a hit: stats.mtimeMs <= cacheEntry.mtime
Unmodified(mtimeMs, cacheEntry) == mtimeMs <= cacheEntry.mtime

FileCacheInit ==
    /\ fc \in {NewFileCache(maxSize, CacheTtl) : maxSize \in 1..MaxCapacity}
    /\ fcCalls = [k \in 1..MaxCalls |-> IdleCall]
    /\ fcHist = <<>>
    /\ fcPure = TRUE
    /\ fcLeft = MaxOps

FileCacheIdle ==
    /\ fc = NewFileCache(1, CacheTtl)
    /\ fcCalls = [k \in 1..MaxCalls |-> IdleCall]
    /\ fcHist = <<>>
    /\ fcPure = TRUE
    /\ fcLeft = 0

\* the history once entry is set: a key the Map does not hold is appended
HistAfterSet(cache, key) == IF Has(cache, key) THEN fcHist ELSE Append(fcHist, key)

\* whether the history stays one of distinct keys, each set once, once key is set
PureAfterSet(cache, key) == fcPure /\ ~Has(cache, key) /\ key \notin Range(fcHist)

\* the slots that hold no call in progress and no answer still to be taken,
\* and the one a new call takes
FreeSlots(calls) ==
    {k \in 1..MaxCalls : calls[k].pc \in {"idle", "returned", "threw"} /\ calls[k].owner = 0}
FirstFreeSlot(calls) == CHOOSE k \in FreeSlots(calls) : \A j \in FreeSlots(calls) : k <= j

\* get(filePath) from its call to its first await, made by owner in slot k.
\* S holds the instance (fc), the calls and whether only set and hits have
\* happened so far (pure)
FileCacheGetBegin(S, k, filePath, owner) ==
    LET key == generateKey(filePath)
        call == [IdleCall EXCEPT !.path = filePath, !.owner = owner, !.at = now]
    IN IF Has(S.fc.cache, key)
       THEN LET cacheEntry == EntryOf(S.fc.cache, key)
                found == [call EXCEPT !.found = TRUE, !.entry = cacheEntry]
            IN IF Fresh(S.fc, cacheEntry)
               THEN [S EXCEPT !.calls[k] = [found EXCEPT !.pc = "stat1"]]
               ELSE LET c2 == [FileCacheDrop(S.fc, key, cacheEntry)
                                  EXCEPT !.stats.misses = @ + 1]
                    IN [fc |-> c2,
                        calls |-> [S.calls EXCEPT ![k] =
                                      Counted([found EXCEPT !.pc = "read"], S.fc, c2)],
                        pure |-> FALSE]
       ELSE LET c2 == [S.fc EXCEPT !.stats.misses = @ + 1]
            IN [S EXCEPT !.fc = c2,
                         !.calls[k] = Counted([call EXCEPT !.pc = "read"], S.fc, c2)]

\* a direct call of get
GetBegin ==
    /\ fcLeft > 0
    /\ fcLeft' = fcLeft - 1
    /\ FreeSlots(fcCalls) # {}
    /\ \E filePath \in Paths :
        LET after == FileCacheGetBegin([fc |-> fc, calls |-> fcCalls, pure |-> fcPure],
                                       FirstFreeSlot(fcCalls), filePath, 0)
        IN /\ fc' = after.fc
           /\ fcCalls' = after.calls
           /\ fcPure' = after.pure
    /\ UNCHANGED fcHist
    /\ UNCHANGED envVars
    /\ UNCHANGED fcOthers

\* the stat of a fresh entry's file, where a stat that throws sends the call
\* down the path of a modified file
GetStat1FailureDrops ==
    /\ UNCHANGED fcLeft
    /\ \E k \in 1..MaxCalls :
        LET call == fcCalls[k]
            key == generateKey(call.path)
        IN /\ call.pc = "stat1"
           /\ IF StatOk(call.path)
              THEN LET mtimeMs == disk[call.path].mtime
                   IN IF Unmodified(mtimeMs, call.entry)
                      THEN /\ fc' = [fc EXCEPT !.stats.hits = @ + 1]
                           /\ fcCalls' = [fcCalls EXCEPT ![k] =
                                   Counted([call EXCEPT !.pc = "returned",
                                                        !.seen = mtimeMs,
                                                        !.result = call.entry.content,
                                                        !.via = "cache"], fc, fc')]
                           /\ UNCHANGED fcPure
                      ELSE /\ fc' = [FileCacheDrop(fc, key, call.entry)
                                        EXCEPT !.stats.misses = @ + 1]
                           /\ fcCalls' = [fcCalls EXCEPT ![k] =
                                   Counted([call EXCEPT !.pc = "read", !.seen = mtimeMs],
                                           fc, fc')]
                           /\ fcPure' = FALSE
              ELSE /\ fc' = [FileCacheDrop(fc, key, call.entry)
                                EXCEPT !.stats.misses = @ + 1]
                   /\ fcCalls' = [fcCalls EXCEPT ![k] =
                           Counted([call EXCEPT !.pc = "read", !.seen = -2], fc, fc')]
                   /\ fcPure' = FALSE
    /\ UNCHANGED fcHist
    /\ UNCHANGED envVars
    /\ UNCHANGED fcOthers

\* the stat of a fresh entry's file has answered or thrown
GetStat1 ==
    /\ UNCHANGED fcLeft
    /\ \E k \in 1..MaxCalls :
        LET call == fcCalls[k]
            key == generateKey(call.path)
        IN /\ call.pc = "stat1"
           /\ IF StatOk(call.path)
              THEN LET mtimeMs == disk[call.path].mtime
                   IN IF Unmodified(mtimeMs, call.entry)
                      THEN /\ fc' = [fc EXCEPT !.stats.hits = @ + 1]
                           /\ fcCalls' = [fcCalls EXCEPT ![k] =
                                   Counted([call EXCEPT !.pc = "returned",
                                                        !.seen = mtimeMs,
                                                        !.result = call.entry.content,
                                                        !.via = "cache"], fc, fc')]
                           /\ UNCHANGED fcPure
                      ELSE /\ fc' = [FileCacheDrop(fc, key, call.entry)
                                        EXCEPT !.stats.misses = @ + 1]
                           /\ fcCalls' = [fcCalls EXCEPT ![k] =
                                   Counted([call EXCEPT !.pc = "read", !.seen = mtimeMs],
                                           fc, fc')]
                           /\ fcPure' = FALSE
              ELSE /\ fc' = [fc EXCEPT !.stats.hits = @ + 1]
                   /\ fcCalls' = [fcCalls EXCEPT ![k] =
                           Counted([call EXCEPT !.pc = "returned",
                                                !.seen = -2,
                                                !.result = call.entry.content,
                                                !.via = "cache"], fc, fc')]
                   /\ UNCHANGED fcPure
    /\ UNCHANGED fcHist
    /\ UNCHANGED envVars
    /\ UNCHANGED fcOthers

\* readFile has answered or thrown
GetRead ==
    /\ UNCHANGED fcLeft
    /\ \E k \in 1..MaxCalls :
        /\ fcCalls[k].pc = "read"
        /\ IF ReadOk(fcCalls[k].path)
           THEN fcCalls' = [fcCalls EXCEPT ![k].pc = "stat2",
                                           ![k].content = disk[fcCalls[k].path].content]
           ELSE fcCalls' = [fcCalls EXCEPT ![k].pc = "threw"]
    /\ UNCHANGED <<fc, fcHist, fcPure>>
    /\ UNCHANGED envVars
    /\ UNCHANGED fcOthers

\* the stat after the read has answered or thrown
GetStat2 ==
    /\ UNCHANGED fcLeft
    /\ \E k \in 1..MaxCalls :
        LET call == fcCalls[k]
            key == generateKey(call.path)
        IN /\ call.pc = "stat2"
           /\ IF StatOk(call.path)
              THEN /\ fc' = FileCacheSet(fc, CacheEntry(key, call.content, now,
                                                        disk[call.path].mtime))
                   /\ fcHist' = HistAfterSet(fc.cache, key)
                   /\ fcPure' = PureAfterSet(fc.cache, key)
                   /\ fcCalls' = [fcCalls EXCEPT ![k] =
                           Counted([call EXCEPT !.pc = "returned",
                                                !.result = call.content,
                                                !.via = "disk"], fc, fc')]
              ELSE /\ fcCalls' = [fcCalls EXCEPT ![k].pc = "threw"]
                   /\ UNCHANGED <<fc, fcHist, fcPure>>
    /\ UNCHANGED envVars
    /\ UNCHANGED fcOthers

\* a direct call set(key, value), with the content and mtime of the file as
\* they are on disk (what readFileWithCache stores)
FileCacheSetCall ==
    /\ fcLeft > 0
    /\ fcLeft' = fcLeft - 1
    /\ \E filePath \in Paths :
        LET key == generateKey(filePath)
        IN /\ disk[filePath].status = "ok"
           /\ fc' = FileCacheSet(fc, CacheEntry(key, disk[filePath].content, now,
                                                disk[filePath].mtime))
           /\ fcHist' = HistAfterSet(fc.cache, key)
           /\ fcPure' = PureAfterSet(fc.cache, key)
    /\ UNCHANGED fcCalls
    /\ UNCHANGED envVars
    /\ UNCHANGED fcOthers

\* invalidate(filePath) that empties the cache when it finds the entry
InvalidateOfClearsAll(filePath) ==
    LET key == generateKey(filePath)
    IN /\ fcLeft > 0
       /\ fcLeft' = fcLeft - 1
       /\ IF Has(fc.cache, key)
          THEN /\ fc' = [fc EXCEPT !.cache = <<>>, !.stats.bytesStored = 0, !.stats.size = 0]
               /\ fcPure' = FALSE
          ELSE UNCHANGED <<fc, fcPure>>
       /\ UNCHANGED <<fcCalls, fcHist>>
       /\ UNCHANGED envVars
       /\ UNCHANGED fcOthers

\* invalidate(filePath) for the path filePath
InvalidateOf(filePath) ==
    LET key == generateKey(filePath)
    IN /\ fcLeft > 0
       /\ fcLeft' = fcLeft - 1
       /\ IF Has(fc.cache, key)
          THEN LET cache2 == Delete(fc.cache, key)
               IN /\ fc' = [fc EXCEPT !.cache = cache2,
                                      !.stats.bytesStored = @ - Len(EntryOf(fc.cache, key).content),
                                      !.stats.size = Len(cache2)]
                  /\ fcPure' = FALSE
          ELSE UNCHANGED <<fc, fcPure>>
       /\ UNCHANGED <<fcCalls, fcHist>>
       /\ UNCHANGED envVars
       /\ UNCHANGED fcOthers

\* a call invalidate(filePath)
InvalidatePath == \E filePath \in Paths : InvalidateOf(filePath)

\* invalidate() that also starts the statistics afresh
InvalidateAllResetsStats ==
    /\ fcLeft > 0
    /\ fcLeft' = fcLeft - 1
    /\ fc' = [fc EXCEPT !.cache = <<>>, !.stats = NewFileCacheStats]
    /\ fcPure' = (fcPure /\ fc.cache = <<>>)
    /\ UNCHANGED <<fcCalls, fcHist>>
    /\ UNCHANGED envVars
    /\ UNCHANGED fcOthers

\* invalidate()
InvalidateAll ==
    /\ fcLeft > 0
    /\ fcLeft' = fcLeft - 1
    /\ fc' = [fc EXCEPT !.cache = <<>>, !.stats.size = 0, !.stats.bytesStored = 0]
    /\ fcPure' = (fcPure /\ fc.cache = <<>>)
    /\ UNCHANGED <<fcCalls, fcHist>>
    /\ UNCHANGED envVars
    /\ UNCHANGED fcOthers

----------------------------------------------------------------------------
(* core/tree-cache.js *)

\* the options objects a tree is cached under, by their JSON text
TreeOptionInputs == {"{}", "{\"ignoreGit\":false}"}

\* generateKey(dirPath, options): the md5 digest of dirPath:JSON(options),
\* distinct texts taken to have distinct digests
TreeKey(dirPath, options) == <<"md5", dirPath, options>>

\* the file tree that set is handed for dirPath
TreeData(dirPath) == <<"tree", dirPath>>

\* constructor({maxEntries, ttl}); cache is the Map, as its entries in insertion order
NewTreeCache(maxEntries, ttl) ==
    [maxEntries |-> maxEntries, ttl |-> ttl, cache |-> <<>>,
     stats |-> [hits |-> 0, misses |-> 0, evictions |-> 0]]

\* what get returns when it has nothing to serve
Null == <<"null">>

NoGet == [dirPath |-> 0, options |-> "{}", result |-> Null, hit |-> FALSE]

TreeCacheInit ==
    /\ tc \in {NewTreeCache(maxEntries, CacheTtl) : maxEntries \in 1..MaxCapacity}
    /\ tcHist = <<>>
    /\ tcPure = TRUE
    /\ tcLast = NoGet
    /\ tcLeft = MaxOps

TreeCacheIdle ==
    /\ tc = NewTreeCache(1, CacheTtl)
    /\ tcHist = <<>>
    /\ tcPure = TRUE
    /\ tcLast = NoGet
    /\ tcLeft = 0

\* get that serves every entry younger than ttl, without the statSync
TreeCacheGetWithoutStat(c, dirPath, options) ==
    LET key == TreeKey(dirPath, options)
        miss(c1) == [c |-> [c1 EXCEPT !.stats.misses = @ + 1], result |-> Null, hit |-> FALSE]
    IN IF Has(c.cache, key)
       THEN LET entry == EntryOf(c.cache, key)
                served == [c |-> [c EXCEPT !.stats.hits = @ + 1],
                           result |-> entry.data, hit |-> TRUE]
                dropped == [c EXCEPT !.cache = Delete(@, key), !.stats.evictions = @ + 1]
            IN IF Fresh(c, entry) THEN served ELSE miss(dropped)
       ELSE miss(c)

\* get(dirPath, options) on instance c: the instance after the call, what the
\* call returns, and whether it was counted as a hit
TreeCacheGet(c, dirPath, options) ==
    LET key == TreeKey(dirPath, options)
        miss(c1) == [c |-> [c1 EXCEPT !.stats.misses = @ + 1], result |-> Null, hit |-> FALSE]
    IN IF Has(c.cache, key)
       THEN LET entry == EntryOf(c.cache, key)
                served == [c |-> [c EXCEPT !.stats.hits = @ + 1],
                           result |-> entry.data, hit |-> TRUE]
                dropped == [c EXCEPT !.cache = Delete(@, key), !.stats.evictions = @ + 1]
            IN IF Fresh(c, entry)
               THEN IF StatOk(dirPath)
                    THEN IF disk[dirPath].mtime <= entry.mtime
                         THEN served
                         ELSE miss(dropped)
                    ELSE served
               ELSE miss(dropped)
       ELSE miss(c)

\* set(dirPath, options, data) on instance c
TreeCacheSet(c, dirPath, options, data) ==
    LET key == TreeKey(dirPath, options)
        c1 == IF Len(c.cache) >= c.maxEntries
              THEN [c EXCEPT !.cache = Tail(@), !.stats.evictions = @ + 1]
              ELSE c
        mtime == IF StatOk(dirPath) THEN disk[dirPath].mtime ELSE now
    IN [c1 EXCEPT !.cache = MapSet(@, [key |-> key, data |-> data,
                                       timestamp |-> now, mtime |-> mtime])]

\* key.startsWith(dirPath): a key is 32 hexadecimal digits and the directory
\* paths here are absolute, so none is the start of a key
KeyStartsWith(key, dirPath) == FALSE

\* a call get(dirPath, options)
TreeGet ==
    /\ tcLeft > 0
    /\ tcLeft' = tcLeft - 1
    /\ \E dirPath \in Paths, options \in TreeOptionInputs :
        LET r == TreeCacheGet(tc, dirPath, options)
        IN /\ tc' = r.c
           /\ tcLast' = [dirPath |-> dirPath, options |-> options,
                         result |-> r.result, hit |-> r.hit]
           /\ tcPure' = (tcPure /\ Len(r.c.cache) = Len(tc.cache))
    /\ UNCHANGED tcHist
    /\ UNCHANGED tcOthers

\* a call set(dirPath, options, data)
TreeSet ==
    /\ tcLeft > 0
    /\ tcLeft' = tcLeft - 1
    /\ \E dirPath \in Paths, options \in TreeOptionInputs :
        LET key == TreeKey(dirPath, options)
        IN /\ tc' = TreeCacheSet(tc, dirPath, options, TreeData(dirPath))
           /\ tcHist' = IF Has(tc.cache, key) THEN tcHist ELSE Append(tcHist, key)
           /\ tcPure' = (tcPure /\ ~Has(tc.cache, key) /\ key \notin Range(tcHist))
    /\ UNCHANGED tcLast
    /\ UNCHANGED tcOthers

\* an argument of invalidate that is left out
NoDir == 0

\* invalidate(dirPath, options) on instance c; a directory path is a non-empty
\* string and an options object is truthy
TreeCacheInvalidate(c, dirPath, options) ==
    IF dirPath # NoDir /\ options # Undefined
    THEN [c EXCEPT !.cache = Delete(@, TreeKey(dirPath, options))]
    ELSE IF dirPath # NoDir
    THEN [c EXCEPT !.cache = SelectSeq(@, LAMBDA e : ~KeyStartsWith(e.key, dirPath))]
    ELSE [c EXCEPT !.cache = <<>>]

\* the call invalidate(dirPath, options)
TreeInvalidateOf(dirPath, options) ==
    /\ tcLeft > 0
    /\ tcLeft' = tcLeft - 1
    /\ tc' = TreeCacheInvalidate(tc, dirPath, options)
    /\ tcPure' = (tcPure /\ tc'.cache = tc.cache)
    /\ UNCHANGED <<tcHist, tcLast>>
    /\ UNCHANGED tcOthers

\* a call invalidate(dirPath, options), invalidate(dirPath) or invalidate()
TreeInvalidate ==
    \E dirPath \in Paths \cup {NoDir}, options \in TreeOptionInputs \cup {Undefined} :
        TreeInvalidateOf(dirPath, options)

----------------------------------------------------------------------------
(* core/file-reader.js: the version that reads every file with fs.readFile
   (src/core/file-reader.js) and the version that reads through the
   BatchProcessor and the FileCache of the module *)

\* the relativeFilePaths readFiles is called with
ReadPaths == 1..MaxReadPaths
ReadInputs == {<<>>} \cup SeqsUpTo(ReadPaths, MaxTasks)

\* how the batched version reads a file: useCache; else useStreams; else neither
ReadModes == {"cache", "stream", "plain"}

\* a Map with nothing in it, and Map.prototype.set
EmptyMap == <<>>
MapPut(m, k, v) == [x \in DOMAIN m \cup {k} |-> IF x = k THEN v ELSE m[x]]

\* A call of readFiles.  impl: "simple" or "batched".  batch: its processBatch
\* call, 0 when there is none.  pcs[i]: where the read of paths[i] stands:
\* queued (its task has not started), read (awaiting fs.readFile), get
\* (awaiting fileCache.get), sstat and sread (awaiting the stat and the read of
\* smartReadFile, sstream for its read with readFileStream), cstat (awaiting
\* the stat readFileWithCache makes before it caches), ok (content obtained),
\* fail (an error caught and logged).
\* got[i]: the content smartReadFile returned to readFileWithCache.
\* methods[i]: the reads that obtained the content of paths[i] from disk, in
\* order, each with how it was made and whether the file was large
NewRead(impl, mode, paths, batch) ==
    [impl |-> impl, mode |-> mode, paths |-> paths, batch |-> batch,
     pcs |-> [i \in 1..Len(paths) |-> "queued"],
     got |-> [i \in 1..Len(paths) |-> <<>>],
     methods |-> [i \in 1..Len(paths) |-> <<>>],
     fileContents |-> EmptyMap, state |-> "pending", returned |-> EmptyMap]

\* the callback given to map / processBatch is over for paths[i], keeping an
\* entry for a file that could not be read
ReaderDoneKeepsFailed(read, i, ok, content) ==
    [read EXCEPT !.pcs[i] = IF ok THEN "ok" ELSE "fail",
                 !.fileContents = MapPut(@, read.paths[i], IF ok THEN content ELSE <<>>)]

\* the callback given to map / processBatch is over for paths[i]:
\* fileContents.set(relativeFilePath, content), or the catch block
ReaderDone(read, i, ok, content) ==
    [read EXCEPT !.pcs[i] = IF ok THEN "ok" ELSE "fail",
                 !.fileContents = IF ok THEN MapPut(@, read.paths[i], content) ELSE @]

\* File sizes and content lengths are counted in units of 512 KiB: the
\* 1024 * 1024 bytes smartReadFile compares stats.size with
StreamThreshold == 2

\* whether a file of that content is one smartReadFile streams
Large(content) == Len(content) >= StreamThreshold

\* where smartReadFile goes after its stat: fs.readFile for stats.size below
\* the threshold, readFileStream otherwise
SmartReadPc(content) == IF Large(content) THEN "sstream" ELSE "sread"

\* a read that answered: made with fs.readFile ("single") or with
\* readFileStream ("stream"), of a file that was large or not
ReadMade(method, large) == [method |-> method, large |-> large]

\* what the files hold when the module is loaded: not the same in any two of
\* the files readFiles is asked for
ContentOf(p) == IF p = 1 THEN <<"a">> ELSE <<"b", "b">>

\* the files as a call of readFiles may find them: there or not, readable or not
DiskInputs ==
    {[p \in Paths |-> IF p \in ReadPaths
                      THEN [status |-> st[p], content |-> ContentOf(p), mtime |-> 0]
                      ELSE NewFile] :
        st \in [ReadPaths -> {"ok", "missing", "denied"}]}

\* the module as loaded: fileCache and batchProcessor constructed, no call made
ReadInit ==
    /\ reads = <<>>
    /\ now = 1
    /\ disk \in DiskInputs
    /\ fsMods = 0
    /\ fc = NewFileCache(MaxCapacity, CacheTtl)
    /\ fcCalls = [k \in 1..MaxCalls |-> IdleCall]
    /\ fcHist = <<>>
    /\ fcPure = TRUE
    /\ fcLeft = 0
    /\ bp \in {NewBatchProcessor(c) : c \in 1..MaxConcurrency}
    /\ tasks = <<>>
    /\ batches = <<>>
    /\ bpCleared = 0

\* the task of processBatch call b for index i
TaskOf(T, b, i) == CHOOSE id \in 1..Len(T) : T[id].batch = b /\ T[id].index = i

\* the call of readFiles that made processBatch call b
ReadOf(b) == CHOOSE r \in 1..Len(reads) : reads[r].batch = b

\* The task of paths[i] of call r, id, has been started by processQueue: the
\* wrapper and taskFn run up to their first await.  S holds the calls of
\* readFiles (reads), the FileCache (fc), its calls and its pure flag.
ReaderBegin(S, r, i, id) ==
    LET read == S.reads[r]
    IN IF read.mode = "cache"
       THEN LET g == FileCacheGetBegin([fc |-> S.fc, calls |-> S.calls, pure |-> S.pure],
                                       FirstFreeSlot(S.calls), read.paths[i], id)
            IN [reads |-> [S.reads EXCEPT ![r].pcs[i] = "get"],
                fc |-> g.fc, calls |-> g.calls, pure |-> g.pure]
       ELSE IF read.mode = "stream"
       THEN [S EXCEPT !.reads[r].pcs[i] = "sstat"]
       ELSE [S EXCEPT !.reads[r].pcs[i] = "read"]

RECURSIVE BeginStarted(_, _, _, _, _)
\* the tasks of call r that add has started (T: the tasks, base: the number of
\* tasks before the call), begun in index order from index i on
BeginStarted(S, T, r, base, i) ==
    IF i > Len(S.reads[r].paths) THEN S
    ELSE BeginStarted(IF T[base + i].state = "running"
                      THEN ReaderBegin(S, r, i, base + i) ELSE S,
                      T, r, base, i + 1)

\* readFiles(relativeFilePaths, rootPath, options) of the batched version, up
\* to its await of processBatch
ReadFilesBatched ==
    /\ Len(reads) < MaxReads
    /\ \A r \in 1..Len(reads) : reads[r].impl = "batched"
    /\ \E paths \in ReadInputs, mode \in ReadModes :
        /\ Len(tasks) + Len(paths) <= MaxTasks
        /\ IF paths = <<>>
           THEN /\ reads' = Append(reads, [NewRead("batched", mode, paths, 0)
                                              EXCEPT !.state = "resolved"])
                /\ UNCHANGED <<bp, tasks, batches, fc, fcCalls, fcPure>>
           ELSE LET b == Len(batches) + 1
                    r == Len(reads) + 1
                    reset == [bp |-> [bp EXCEPT !.stats = NewStats],
                              tasks |-> tasks, threw |-> FALSE]
                    after == AddItems(reset, b, paths, 1)
                    begun == BeginStarted(
                                 [reads |-> Append(reads, NewRead("batched", mode, paths, b)),
                                  fc |-> fc, calls |-> fcCalls, pure |-> fcPure],
                                 after.tasks, r, Len(tasks), 1)
                IN /\ batches' = Append(batches, NewBatch(paths, FALSE))
                   /\ bp' = after.bp
                   /\ tasks' = after.tasks
                   /\ reads' = begun.reads
                   /\ fc' = begun.fc
                   /\ fcCalls' = begun.calls
                   /\ fcPure' = begun.pure
    /\ UNCHANGED <<bpCleared, fcHist, fcLeft>>
    /\ UNCHANGED envVars
    /\ UNCHANGED rdOthers

\* taskFn is over for paths[i] of call r, whose calls of readFiles stand as
\* rs: the rest of the wrapper of processBatch runs with the value taskFn
\* returned, { success, path }
SettleReaderAfter(rs, r, i, ok, content) ==
    LET b == reads[r].batch
        id == TaskOf(tasks, b, i)
    IN /\ reads' = [rs EXCEPT ![r] = ReaderDone(@, i, ok, content)]
       /\ tasks' = [tasks EXCEPT ![id].state = "settled", ![id].outcome = "ok"]
       /\ batches' = [batches EXCEPT ![b] =
                         [Record(@, i, TRUE, @.items[i])
                             EXCEPT !.results[i].result =
                                        [success |-> ok, path |-> reads[r].paths[i]]]]

SettleReader(r, i, ok, content) == SettleReaderAfter(reads, r, i, ok, content)

\* the fs.stat of smartReadFile has answered or thrown
ReaderStat ==
    /\ \E r \in 1..Len(reads) : \E i \in 1..Len(reads[r].paths) :
        /\ reads[r].pcs[i] = "sstat"
        /\ IF StatOk(reads[r].paths[i])
           THEN /\ reads' = [reads EXCEPT ![r].pcs[i] =
                                   SmartReadPc(disk[reads[r].paths[i]].content)]
                /\ UNCHANGED <<tasks, batches>>
           ELSE SettleReader(r, i, FALSE, <<>>)
    /\ UNCHANGED <<bp, bpCleared>>
    /\ UNCHANGED <<envVars, fcVars>>
    /\ UNCHANGED rdOthers

\* a read of the batched version has answered or thrown: the fs.readFile of
\* the plain mode, or the fs.readFile or readFileStream of smartReadFile
\* (which of the two depends on the size of the file, the outcome does not)
ReaderRead ==
    /\ \E r \in 1..Len(reads) : \E i \in 1..Len(reads[r].paths) :
        LET read == reads[r]
            p == read.paths[i]
            made == IF read.pcs[i] = "read"
                    THEN ReadMade("single", Large(disk[p].content))
                    ELSE IF read.pcs[i] = "sread"
                    THEN ReadMade("single", FALSE)
                    ELSE ReadMade("stream", TRUE)
        IN /\ read.impl = "batched"
           /\ read.pcs[i] \in {"read", "sread", "sstream"}
           /\ IF ~ReadOk(p)
              THEN SettleReader(r, i, FALSE, <<>>)
              ELSE IF read.mode = "cache"
              THEN /\ reads' = [reads EXCEPT ![r].pcs[i] = "cstat",
                                             ![r].got[i] = disk[p].content,
                                             ![r].methods[i] = Append(@, made)]
                   /\ UNCHANGED <<tasks, batches>>
              ELSE SettleReaderAfter([reads EXCEPT ![r].methods[i] = Append(@, made)],
                                     r, i, TRUE, disk[p].content)
    /\ UNCHANGED <<bp, bpCleared>>
    /\ UNCHANGED <<envVars, fcVars>>
    /\ UNCHANGED rdOthers

\* fileCache.get has answered or thrown in readFileWithCache: the content is
\* returned, or smartReadFile is called.  A call of get that holds content has
\* read it with fs.readFile.
ReaderCacheAnswers ==
    /\ \E r \in 1..Len(reads) : \E i \in 1..Len(reads[r].paths) : \E k \in 1..MaxCalls :
        LET id == TaskOf(tasks, reads[r].batch, i)
        IN /\ reads[r].pcs[i] = "get"
           /\ fcCalls[k].owner = id
           /\ fcCalls[k].pc \in {"returned", "threw"}
           /\ fcCalls' = [fcCalls EXCEPT ![k] = IdleCall]
           /\ LET rs == IF fcCalls[k].content = <<>> THEN reads
                         ELSE [reads EXCEPT ![r].methods[i] =
                                  Append(@, ReadMade("single", Large(fcCalls[k].content)))]
              IN IF fcCalls[k].pc = "returned"
                 THEN SettleReaderAfter(rs, r, i, TRUE, fcCalls[k].result)
                 ELSE /\ reads' = [rs EXCEPT ![r].pcs[i] = "sstat"]
                      /\ UNCHANGED <<tasks, batches>>
    /\ UNCHANGED <<bp, bpCleared>>
    /\ UNCHANGED <<fc, fcHist, fcPure, fcLeft>>
    /\ UNCHANGED envVars
    /\ UNCHANGED rdOthers

\* the fs.stat readFileWithCache makes after smartReadFile has answered or
\* thrown: fileCache.set, or nothing; the content is returned either way
ReaderCacheStat ==
    /\ \E r \in 1..Len(reads) : \E i \in 1..Len(reads[r].paths) :
        LET p == reads[r].paths[i]
            key == generateKey(p)
            content == reads[r].got[i]
        IN /\ reads[r].pcs[i] = "cstat"
           /\ IF StatOk(p)
              THEN /\ fc' = FileCacheSet(fc, CacheEntry(key, content, now, disk[p].mtime))
                   /\ fcHist' = HistAfterSet(fc.cache, key)
                   /\ fcPure' = PureAfterSet(fc.cache, key)
              ELSE UNCHANGED <<fc, fcHist, fcPure>>
           /\ SettleReader(r, i, TRUE, content)
    /\ UNCHANGED <<bp, bpCleared>>
    /\ UNCHANGED <<fcCalls, fcLeft>>
    /\ UNCHANGED envVars
    /\ UNCHANGED rdOthers

\* the .finally handler of processQueue for a task of readFiles: the task it
\* starts, if any, runs up to its first await
ReaderFinally ==
    /\ \E id \in 1..Len(tasks) :
        /\ tasks[id].state = "handled"
        /\ LET after == FinallyOf(id)
               started == {t \in 1..Len(tasks) :
                               tasks[t].state = "queued" /\ after.tasks[t].state = "running"}
               S == [reads |-> reads, fc |-> fc, calls |-> fcCalls, pure |-> fcPure]
               begun == IF started = {} THEN S
                        ELSE LET t == CHOOSE t \in started : TRUE
                             IN ReaderBegin(S, ReadOf(tasks[t].batch), tasks[t].index, t)
           IN /\ bp' = after.bp
              /\ tasks' = after.tasks
              /\ reads' = begun.reads
              /\ fc' = begun.fc
              /\ fcCalls' = begun.calls
              /\ fcPure' = begun.pure
    /\ UNCHANGED <<batches, bpCleared, fcHist, fcLeft>>
    /\ UNCHANGED envVars
    /\ UNCHANGED rdOthers

\* readFiles(relativeFilePaths, rootPath) of the simple version, up to its
\* await: every fs.readFile is under way
ReadFilesSimple ==
    /\ Len(reads) < MaxReads
    /\ \A r \in 1..Len(reads) : reads[r].impl = "simple"
    /\ \E paths \in ReadInputs :
        reads' = Append(reads, [NewRead("simple", "plain", paths, 0)
                                   EXCEPT !.pcs = [i \in 1..Len(paths) |-> "read"]])
    /\ UNCHANGED <<bpVars, envVars, fcVars>>
    /\ UNCHANGED rdOthers

\* a fs.readFile of the simple version has answered or thrown
SimpleReadAnswers ==
    /\ \E r \in 1..Len(reads) : \E i \in 1..Len(reads[r].paths) :
        LET p == reads[r].paths[i]
        IN /\ reads[r].impl = "simple"
           /\ reads[r].pcs[i] = "read"
           /\ reads' = [reads EXCEPT ![r] =
                           IF ReadOk(p)
                           THEN ReaderDone([@ EXCEPT !.methods[i] =
                                               Append(@, ReadMade("single", Large(disk[p].content)))],
                                           i, TRUE, disk[p].content)
                           ELSE ReaderDone(@, i, FALSE, <<>>)]
    /\ UNCHANGED <<bpVars, envVars, fcVars>>
    /\ UNCHANGED rdOthers

\* the await of readFiles is over (Promise.allSettled, or processBatch):
\* return fileContents
ReadFilesReturn ==
    /\ \E r \in 1..Len(reads) :
        /\ reads[r].state = "pending"
        /\ IF reads[r].impl = "simple"
           THEN \A i \in 1..Len(reads[r].paths) : reads[r].pcs[i] \in {"ok", "fail"}
           ELSE batches[reads[r].batch].state = "resolved"
        /\ reads' = [reads EXCEPT ![r].state = "resolved",
                                  ![r].returned = reads[r].fileContents]
    /\ UNCHANGED <<bpVars, envVars, fcVars>>
    /\ UNCHANGED rdOthers

----------------------------------------------------------------------------
(* Specifications *)

ReadIdle == reads = <<>>

ListIdle ==
    /\ sep = Slash
    /\ fsFiles = {}
    /\ giFile = [state |-> "absent", ignored |-> {}]
    /\ lsOptions = [useGitignore |-> TRUE, ignoreGit |-> TRUE, customBlacklist |-> {}]
    /\ gitignoreInstance = NoMatcher
    /\ lsPc = "start"
    /\ lsStack = <<>>
    /\ lsReturned = <<>>
    /\ lsError = "none"
    /\ lsReadDirs = {}
    /\ lsFailed = {}

\* shouldIgnore on bounded inputs
InitFilter ==
    FilterInit /\ ListIdle /\ BatchIdle /\ EnvInit /\ FileCacheIdle /\ TreeCacheIdle
    /\ ReadIdle /\ ToolIdle /\ AnalyzeIdle

NextFilter == CallShouldIgnore

SpecFilter == InitFilter /\ [][NextFilter]_vars

\* one call of listFiles
InitList ==
    ListInit /\ FilterIdle /\ BatchIdle /\ EnvInit /\ FileCacheIdle /\ TreeCacheIdle
    /\ ReadIdle /\ ToolIdle /\ AnalyzeIdle

NextList ==
    \/ ListFilesStart
    \/ ReadDirOk
    \/ ReadDirFails
    \/ VisitItem
    \/ ReturnList

SpecList == InitList /\ [][NextList]_vars

\* one BatchProcessor under add, processBatch, settlements and clearQueue
InitBatch ==
    BatchInit /\ FilterIdle /\ ListIdle /\ EnvInit /\ FileCacheIdle /\ TreeCacheIdle
    /\ ReadIdle /\ ToolIdle /\ AnalyzeIdle

NextBatch ==
    \/ Add
    \/ ProcessBatch
    \/ TaskSettles
    \/ HandleSettled
    \/ Finally
    \/ ClearQueue
    \/ ResolveBatch

SpecBatch == InitBatch /\ [][NextBatch]_vars

\* the same, where the promise of every started task settles in the end and
\* the event loop runs every promise reaction that is due; the caller is free
\* to stop making calls
SpecBatchFair ==
    /\ SpecBatch
    /\ WF_vars(TaskSettles)
    /\ WF_vars(HandleSettled)
    /\ WF_vars(Finally)
    /\ WF_vars(ResolveBatch)

\* one FileCache under concurrent get calls, set and invalidate, or one
\* TreeCache under get, set and invalidate (the two share nothing, and a
\* behaviour makes its calls on one of them), while the clock advances and
\* the files change
InitCache ==
    /\ EnvInit /\ FilterIdle /\ ListIdle /\ BatchIdle /\ ReadIdle /\ ToolIdle /\ AnalyzeIdle
    /\ \/ FileCacheInit /\ TreeCacheIdle
       \/ FileCacheIdle /\ TreeCacheInit

NextCache ==
    \/ Tick
    \/ ModifyFile
    \/ BreakFile
    \/ GetBegin
    \/ GetStat1
    \/ GetRead
    \/ GetStat2
    \/ FileCacheSetCall
    \/ InvalidatePath
    \/ InvalidateAll
    \/ TreeGet
    \/ TreeSet
    \/ TreeInvalidate

SpecCache == InitCache /\ [][NextCache]_vars

\* calls of readFiles, all of the one version or all of the other, while files
\* are written and removed
InitRead ==
    ReadInit /\ FilterIdle /\ ListIdle /\ TreeCacheIdle /\ ToolIdle /\ AnalyzeIdle

NextRead ==
    \/ ModifyFile
    \/ BreakFile
    \/ ReadFilesSimple
    \/ SimpleReadAnswers
    \/ ReadFilesBatched
    \/ ReaderStat
    \/ ReaderRead
    \/ ReaderCacheAnswers
    \/ ReaderCacheStat
    \/ GetStat1
    \/ GetRead
    \/ GetStat2
    \/ HandleSettled
    \/ ReaderFinally
    \/ ResolveBatch
    \/ ReadFilesReturn

SpecRead == InitRead /\ [][NextRead]_vars

\* one request to get_file_tree or merge_content for a directory, up to its
\* file list
InitTool ==
    ToolInit /\ FilterIdle /\ BatchIdle /\ EnvInit /\ FileCacheIdle /\ TreeCacheIdle
    /\ ReadIdle /\ AnalyzeIdle

NextTool ==
    \/ ToolListFiles
    \/ ReadDirOk
    \/ ReadDirFails
    \/ VisitItem
    \/ ReturnList

SpecTool == InitTool /\ [][NextTool]_vars

\* one request to analyze_code for a directory, next to a call of listFiles
\* on that directory with default options
InitAnalyze ==
    AnalyzeInit /\ FilterIdle /\ BatchIdle /\ EnvInit /\ FileCacheIdle /\ TreeCacheIdle
    /\ ReadIdle /\ ToolIdle

NextAnalyze ==
    \/ AnalyzeListFiles
    \/ AnalyzeListFails
    \/ AnalyzeReadFiles
    \/ ListFilesStart
    \/ ReadDirOk
    \/ ReadDirFails
    \/ VisitItem
    \/ ReturnList

SpecAnalyze == InitAnalyze /\ [][NextAnalyze]_vars

----------------------------------------------------------------------------
(* Properties of shouldIgnore and listFiles *)

\* the file-system entries (files and directories) below the root
Entries == fsFiles \cup DirsOf(fsFiles)

\* entry d is a proper ancestor of entry e
IsAncestor(d, e) == Len(d) < Len(e) /\ SubSeq(e, 1, Len(d)) = d

\* every path listFiles holds so far: the filesList of each frame and the result
Listed == Range(lsReturned) \cup UNION {Range(lsStack[i].filesList) : i \in 1..Len(lsStack)}

ABin == << <<"a", Dot, "bin">> >>
NodeModulesX == << <<"node_modules">>, <<"x", Dot, "js">> >>
SrcMainJs == << <<"src">>, <<"main", Dot, "js">> >>
GitHead == << GitName, <<"HEAD">> >>

\* the scenario of C1: that tree, default options, no .gitignore file, every
\* directory readable, listFiles resolved
C1_Scenario ==
    /\ fsFiles = {ABin, NodeModulesX, SrcMainJs, GitHead}
    /\ lsOptions = [useGitignore |-> TRUE, ignoreGit |-> TRUE, customBlacklist |-> {}]
    /\ giFile.state = "absent"
    /\ lsFailed = {}
    /\ lsPc = "resolved"

\* C1 as stated: in the scenario listFiles returns exactly the single path src/main.js
C1_OnlySrcMain ==
    C1_Scenario => lsReturned = <<RelativePath(SrcMainJs, sep)>>

\* C1 amended: in the scenario listFiles returns exactly the two paths a.bin and
\* src/main.js, each once (.bin is not a member of BINARY_EXTENSIONS);
\* node_modules/x.js and .git/HEAD are absent
C1_ABinAndSrcMain ==
    C1_Scenario =>
        /\ Len(lsReturned) = 2
        /\ Range(lsReturned) = {RelativePath(ABin, sep), RelativePath(SrcMainJs, sep)}

C1_Witness ==
    /\ C1_Scenario
    /\ lsReadDirs = {Root, <<<<"src">>>>}
    /\ RelativePath(ABin, sep) \in Range(lsReturned)

\* C6: a directory whose relative path shouldIgnore rejects is never read, and
\* no path below it is listed, whatever shouldIgnore says of that path itself
C6_IgnoredDirectoryPruned ==
    lsPc # "start" =>
        \A d \in DirsOf(fsFiles) :
            shouldIgnore(RelativePath(d, sep), FilterOptions) =>
                /\ d \notin lsReadDirs
                /\ \A e \in Entries :
                    IsAncestor(d, e) =>
                        /\ RelativePath(e, sep) \notin Listed
                        /\ e \notin lsReadDirs

\* an ignored directory holds a file that no rule ignores (a matcher that
\* ignores src and not src/main.js), and the listing is complete
C6_Witness ==
    /\ lsPc = "resolved"
    /\ lsFailed = {}
    /\ lsReadDirs # {}
    /\ \E d \in DirsOf(fsFiles), f \in fsFiles :
        /\ IsAncestor(d, f)
        /\ shouldIgnore(RelativePath(d, sep), FilterOptions)
        /\ ~shouldIgnore(RelativePath(f, sep), FilterOptions)
        /\ \A a \in DirsOf(fsFiles) : IsAncestor(a, d) => a \in lsReadDirs

\* C7: with ignoreGit = false shouldIgnore answers false for .git (a member of
\* the default blacklist) and for every path below it, and listFiles reads the
\* root's .git directory
C7_GitOverrideAbsolute ==
    (lsPc # "start" /\ ~lsOptions.ignoreGit) =>
        /\ GitName \in DEFAULT_BLACKLIST
        /\ \A e \in Entries : e[1] = GitName => ~shouldIgnore(RelativePath(e, sep), FilterOptions)
        /\ (lsPc = "resolved" /\ lsFailed = {} /\ <<GitName>> \in DirsOf(fsFiles))
              => <<GitName>> \in lsReadDirs

C7_Witness ==
    /\ lsPc = "resolved"
    /\ ~lsOptions.ignoreGit
    /\ <<GitName>> \in lsReadDirs
    /\ RelativePath(GitHead, sep) \in Range(lsReturned)

\* the lowercased extension of the normalised path is a binary extension
HasBinaryExtension(relativePath) ==
    toLowerCase(extname(NormalizeSeparators(relativePath))) \in BINARY_EXTENSIONS

\* C8: in every option configuration shouldIgnore answers true for a path with a
\* binary extension
C8_BinaryAlwaysIgnored ==
    (fltCalled /\ HasBinaryExtension(fltPath)) => fltResult

\* name is a whole non-empty segment of the normalised path np: a run between
\* separators (or the ends) that holds no separator
HasSegment(np, name) ==
    \E i \in 1..Len(np) :
        LET j == i + Len(name) - 1
        IN /\ name # <<>>
           /\ Slash \notin Range(name)
           /\ j <= Len(np)
           /\ SubSeq(np, i, j) = name
           /\ (i = 1 \/ np[i - 1] = Slash)
           /\ (j = Len(np) \/ np[j + 1] = Slash)

\* the first non-empty segment of np is name
StartsWithSegment(np, name) ==
    \E i \in 1..Len(np) :
        LET j == i + Len(name) - 1
        IN /\ j <= Len(np)
           /\ SubSeq(np, i, j) = name
           /\ \A k \in 1..(i - 1) : np[k] = Slash
           /\ (j = Len(np) \/ np[j + 1] = Slash)

\* the five rules in their order: whether each applies and what it answers
RuleTable(relativePath, options) ==
    LET np == NormalizeSeparators(relativePath)
    IN << [applies |-> StartsWithSegment(np, GitName), answer |-> options.ignoreGit],
          [applies |-> \/ \E name \in options.customBlacklist : HasSegment(np, name)
                       \/ np \in options.customBlacklist,
           answer |-> TRUE],
          [applies |-> \E name \in DEFAULT_BLACKLIST : HasSegment(np, name),
           answer |-> TRUE],
          [applies |-> /\ options.useGitignore
                       /\ options.gitignoreInstance.loaded
                       /\ np \in options.gitignoreInstance.ignored,
           answer |-> TRUE],
          [applies |-> HasBinaryExtension(relativePath), answer |-> TRUE] >>

RECURSIVE FirstApplicable(_)
\* the answer of the first rule that applies, false when none does
FirstApplicable(rules) ==
    IF rules = <<>> THEN FALSE
    ELSE IF Head(rules).applies THEN Head(rules).answer
    ELSE FirstApplicable(Tail(rules))

\* C9: shouldIgnore answers what the first applicable rule of the fixed order
\* (.git, custom blacklist, default blacklist, matcher, binary extension) answers
C9_RuleOrder ==
    fltCalled => fltResult = FirstApplicable(RuleTable(fltPath, fltOptions))

\* the order shows: the .git rule answers false for a path that a later rule
\* (default blacklist, binary extension) would have ignored
C9_Witness ==
    /\ fltCalled
    /\ ~fltResult
    /\ ~fltOptions.ignoreGit
    /\ HasBinaryExtension(fltPath)
    /\ HasSegment(NormalizeSeparators(fltPath), <<"bin">>)

\* the listed paths of files under the root's .git directory
ListedUnderGit == {RelativePath(f, sep) : f \in {g \in fsFiles : g[1] = GitName}} \cap Listed

\* C11: the ignore_git parameter of a get_file_tree or merge_content request
\* decides the ignoreGit option of the listing: with ignore_git = false the
\* list is computed with ignoreGit off and holds the files under .git, with
\* ignore_git = true or left out it is computed with ignoreGit on and holds
\* none of them
C11_IgnoreGitParameterDecides ==
    toolCall.pc = "listing" =>
        IF toolCall.ignore_git = "false"
        THEN /\ ~lsOptions.ignoreGit
             /\ (lsPc = "resolved" /\ lsFailed = {} /\ GitHead \in fsFiles)
                    => RelativePath(GitHead, sep) \in Range(lsReturned)
        ELSE /\ lsOptions.ignoreGit
             /\ ListedUnderGit = {}

\* the directories whose readdir threw
FailedDirs == {x.dir : x \in lsFailed}

\* entry d is entry e or an ancestor of it
IsAncestorOrSelf(d, e) == Len(d) <= Len(e) /\ SubSeq(e, 1, Len(d)) = d

\* the files no rule ignores, by themselves or by a directory above them
Eligible ==
    {f \in fsFiles :
        \A n \in 1..Len(f) : ~shouldIgnore(RelativePath(SubSeq(f, 1, n), sep), FilterOptions)}

\* C21: when only subdirectories failed, each with EACCES or EPERM, listFiles
\* resolves with exactly the eligible files outside those subtrees, each once;
\* once a readdir has thrown anything else listFiles has rejected with that
\* error and returned no list
C21_PermissionErrorsOmitSubtree ==
    /\ (lsPc = "resolved" /\ Root \notin FailedDirs) =>
            /\ \A x \in lsFailed : x.code \in {"EACCES", "EPERM"}
            /\ Range(lsReturned) =
                   {RelativePath(f, sep) :
                        f \in {g \in Eligible :
                                  \A d \in FailedDirs : ~IsAncestorOrSelf(d, g)}}
            /\ Len(lsReturned) = Cardinality(Range(lsReturned))
    /\ \A x \in lsFailed :
            x.code \notin {"EACCES", "EPERM"} =>
                /\ lsPc = "rejected"
                /\ lsError = x.code
                /\ lsReturned = <<>>

\* listFiles has resolved after a subdirectory failed with a permission
\* error: an eligible file below it is missing, one outside it is listed
C21_Witness ==
    /\ lsPc = "resolved"
    /\ Root \notin FailedDirs
    /\ \E d \in FailedDirs, f \in Eligible, g \in Eligible :
        /\ IsAncestorOrSelf(d, f)
        /\ RelativePath(f, sep) \notin Range(lsReturned)
        /\ \A e \in FailedDirs : ~IsAncestorOrSelf(e, g)
        /\ RelativePath(g, sep) \in Range(lsReturned)

\* listFiles has rejected, after it had collected a file, on a subdirectory
\* whose readdir threw another error
C21_WitnessRejected ==
    /\ lsPc = "rejected"
    /\ lsError = "EIO"
    /\ Root \notin FailedDirs
    /\ lsReturned = <<>>

\* C22: when the readdir of the root directory fails with EACCES or EPERM,
\* listFiles rejects; it does not resolve
C22_RootPermissionErrorRejects ==
    (\E x \in lsFailed : x.dir = Root /\ x.code \in {"EACCES", "EPERM"}) =>
        /\ lsPc = "rejected"
        /\ lsError \in {"EACCES", "EPERM"}

\* C24: for a directory target, the files analyze_code reads (filesToProcess,
\* counted by totalFiles) and reports (fileBreakdown) are among the files
\* listFiles returns for that directory with default options, so none of them
\* lies under an ignored directory or has a binary extension.  Compared when
\* every directory could be read by both.
C24_AnalyzeReadsListedFilesOnly ==
    (/\ lsPc = "resolved"
     /\ lsFailed = {}
     /\ lsOptions = DefaultListOptions
     /\ analysis.pc \in {"listed", "returned"})
    => /\ analysis.filesToProcess \subseteq Range(lsReturned)
       /\ analysis.fileBreakdown \subseteq Range(lsReturned)
       /\ analysis.totalFiles <= Len(lsReturned)

----------------------------------------------------------------------------
(* Properties of the BatchProcessor *)

\* the tasks whose promise is in flight: started and not yet settled
InFlight == {id \in 1..Len(tasks) : tasks[id].state = "running"}

\* C2: running stays within 0..concurrency, and so does the number of tasks
\* started and not yet settled, which never exceeds running
C2_RunningWithinLimit ==
    /\ 0 <= bp.running
    /\ bp.running <= bp.concurrency
    /\ Cardinality(InFlight) <= bp.running

\* two processBatch calls overlap on the instance, the limit is reached and a
\* task waits in the queue
C2_Witness ==
    /\ Len(batches) = 2
    /\ \A b \in 1..2 : batches[b].state = "pending" /\ \E id \in InFlight : tasks[id].batch = b
    /\ Cardinality(InFlight) = bp.concurrency
    /\ bp.queue # <<>>

\* the task of processBatch call b for index i has been executed to its end
Executed(b, i) ==
    \E id \in TasksOf(b) :
        /\ tasks[id].index = i
        /\ tasks[id].state \in {"settled", "handled", "done"}

\* what taskFn made of items[i] in call b
OutcomeOf(b, i) ==
    LET id == CHOOSE t \in TasksOf(b) : tasks[t].index = i
    IN IF tasks[id].outcome = "ok"
       THEN [success |-> TRUE, result |-> ResultOf(batches[b].items[i])]
       ELSE [success |-> FALSE, error |-> ErrorOf(batches[b].items[i])]

\* C3: processBatch(items, taskFn) resolves to an array as long as items that
\* holds, at the index of every executed task, the outcome of that item
C3_ResultsByIndex ==
    \A b \in 1..Len(batches) :
        (batches[b].state = "resolved" /\ ~batches[b].callback) =>
            /\ Len(batches[b].returned) = Len(batches[b].items)
            /\ \A i \in 1..Len(batches[b].items) :
                Executed(b, i) => batches[b].returned[i] = OutcomeOf(b, i)

\* a call has resolved whose second task settled before its first, one
\* succeeding and one failing
C3_Witness ==
    \E b \in 1..Len(batches) :
        /\ batches[b].state = "resolved"
        /\ ~batches[b].callback
        /\ batches[b].order = <<2, 1>>
        /\ batches[b].returned[1].success
        /\ ~batches[b].returned[2].success

\* the tasks that were started and whose finally handler has not run yet
Started == {id \in 1..Len(tasks) : tasks[id].state \in {"running", "settled", "handled"}}

\* the tasks that wait in the queue
Queued == {id \in 1..Len(tasks) : tasks[id].state = "queued"}

\* C12: between callbacks a non-empty queue means running = concurrency, and
\* the tasks in flight (started, their slot not yet released) number
\* min(concurrency, tasks started or queued): no task waits while a slot is free
C12_WorkConserving ==
    /\ bp.queue # <<>> => bp.running = bp.concurrency
    /\ LET unreleased == Cardinality(Started \cup Queued)
       IN Cardinality(Started) =
              IF bp.concurrency <= unreleased THEN bp.concurrency ELSE unreleased

\* C13: a progressCallback has been called once for each task of its call
\* that settled, succeeded or failed: the k-th call, for the k-th task to
\* settle, with completed = k, total = n and percent = round(100 * k / n)
C13_ProgressAfterEachSettlement ==
    \A b \in 1..Len(batches) :
        batches[b].callback =>
            LET n == Len(batches[b].items)
                calls == batches[b].progress
            IN /\ Len(calls) = Len(batches[b].order)
               /\ \A k \in 1..Len(calls) :
                    /\ calls[k].completed = k
                    /\ calls[k].total = n
                    /\ calls[k].percent = Round(100 * k, n)
                    /\ calls[k].index = batches[b].order[k]

\* C14: clearQueue rejects exactly the tasks that wait in the queue, returns
\* their number and leaves the queue empty; running, the tasks that were
\* started and the processBatch calls are as before, and a started task
\* settles the promise add returned with its own outcome
C14_ClearQueueFrame ==
    [][/\ ClearQueue =>
            /\ \A id \in Queued :
                    /\ tasks'[id].state = "cleared"
                    /\ tasks'[id].promise = "rejected"
            /\ bpCleared' = Cardinality(Queued)
            /\ bp'.queue = <<>>
            /\ bp'.running = bp.running
            /\ Len(tasks') = Len(tasks)
            /\ \A id \in 1..Len(tasks) : id \notin Queued => tasks'[id] = tasks[id]
            /\ batches' = batches
       /\ \A id \in 1..Len(tasks) :
            (tasks[id].state = "settled" /\ tasks'[id].state = "handled") =>
                tasks'[id].promise = IF tasks[id].outcome = "ok" THEN "fulfilled"
                                                                 ELSE "rejected"
      ]_vars

\* clearQueue has rejected two waiting tasks of a processBatch call and
\* returned 2 while the task started before them is still executing
C14_Witness ==
    /\ bpCleared = 2
    /\ Len(tasks) = 3
    /\ tasks[1].state = "running"
    /\ bp.running = 1
    /\ \A id \in {2, 3} : tasks[id].state = "cleared" /\ tasks[id].promise = "rejected"
    /\ bp.queue = <<>>

\* after clearQueue rejected the task behind it, the task that was executing
\* has gone on to fulfil its promise
C14_WitnessSettles ==
    /\ bpCleared = 1
    /\ bp.concurrency = 1
    /\ Len(tasks) = 2
    /\ tasks[2].state = "cleared"
    /\ tasks[1].state = "done"
    /\ tasks[1].promise = "fulfilled"

\* C15: when every started task settles, the promise of every task handed
\* to add is settled in the end, no task stays in the queue, running comes
\* back to 0, and every processBatch call resolves
C15_EverythingSettles ==
    /\ \A id \in 1..MaxTasks :
            (Len(tasks) >= id) ~> (Len(tasks) >= id /\ tasks[id].promise # "pending")
    /\ \A id \in 1..MaxTasks :
            (Len(tasks) >= id) ~> (Len(tasks) >= id /\ tasks[id].state # "queued")
    /\ []<>(bp.running = 0)
    /\ \A b \in 1..MaxBatches :
            (Len(batches) >= b) ~> (Len(batches) >= b /\ batches[b].state = "resolved")

\* the tasks whose task function threw when processQueue called it
Threw == {id \in 1..Len(tasks) : tasks[id].state = "threw"}

\* the tasks of processBatch call b whose taskFn failed
FailedOf(b) == {id \in TasksOf(b) : tasks[id].outcome = "fail"}

\* C16: a failed task of a processBatch call holds no slot once its finally
\* handler has run, so the tasks behind it are started; and the call
\* resolves, when clearQueue took none of its tasks, with every item
\* executed, the failed item's slot holding {success: false, error} with its
\* own error and every other slot that item's own outcome
C16_FailureIsolated ==
    \A b \in 1..Len(batches) :
        FailedOf(b) # {} =>
            /\ (\E id \in FailedOf(b) : tasks[id].state = "done") =>
                    /\ bp.running = Cardinality(Started \cup Threw)
                    /\ bp.queue # <<>> => bp.running = bp.concurrency
            /\ \A i \in 1..Len(batches[b].items) :
                    Executed(b, i) => batches[b].results[i] = OutcomeOf(b, i)
            /\ (batches[b].state = "resolved"
                  /\ \A id \in TasksOf(b) : tasks[id].state # "cleared") =>
                    /\ Len(batches[b].returned) = Len(batches[b].items)
                    /\ \A i \in 1..Len(batches[b].items) :
                            /\ Executed(b, i)
                            /\ batches[b].returned[i] = OutcomeOf(b, i)

\* with one slot, the first item of a call failed, the second was started
\* after it and succeeded, and the call has resolved with both outcomes
C16_Witness ==
    \E b \in 1..Len(batches) :
        /\ bp.concurrency = 1
        /\ batches[b].state = "resolved"
        /\ batches[b].order = <<1, 2>>
        /\ batches[b].returned[1] = [success |-> FALSE, error |-> ErrorOf(batches[b].items[1])]
        /\ batches[b].returned[2] = [success |-> TRUE, result |-> ResultOf(batches[b].items[2])]

\* C27: the array processBatch resolves to holds, at every index
\* 0..|items|-1, a defined record with a boolean success field, also at the
\* indexes of items whose queued tasks a clearQueue call rejected while the
\* batch was in progress
C27_EveryIndexHoldsARecord ==
    \A b \in 1..Len(batches) :
        batches[b].state = "resolved" =>
            /\ Len(batches[b].returned) = Len(batches[b].items)
            /\ \A i \in 1..Len(batches[b].items) :
                /\ batches[b].returned[i] # Hole
                /\ "success" \in DOMAIN batches[b].returned[i]
                /\ batches[b].returned[i].success \in BOOLEAN

\* C28: in every reachable state of a BatchProcessor, overlapping processBatch
\* calls on one instance included, completedTasks + failedTasks <= totalTasks,
\* so the successRate of getStats (completedTasks / totalTasks when
\* totalTasks > 0, else 0) lies within [0, 1]
C28_SettledWithinTotal ==
    /\ bp.stats.completedTasks + bp.stats.failedTasks <= bp.stats.totalTasks
    /\ bp.stats.totalTasks > 0 => bp.stats.completedTasks <= bp.stats.totalTasks

----------------------------------------------------------------------------
(* Properties of the caches *)

\* the keys a Map holds, in insertion order
KeysOf(cache) == [i \in 1..Len(cache) |-> cache[i].key]

\* A cache of the given capacity holds no more entries than that, and once
\* capacity + 1 distinct keys have been inserted as new (hist), with nothing
\* but hits in between (pure), it holds all of them but the first, in
\* insertion order, and has evicted once
InsertionOrderEviction(cache, capacity, evictions, hist, pure) ==
    /\ Len(cache) <= capacity
    /\ (pure /\ Len(hist) = capacity + 1) =>
           /\ KeysOf(cache) = Tail(hist)
           /\ evictions = 1

\* C4: a FileCache never holds more than maxSize entries and a TreeCache never
\* more than maxEntries, and inserting capacity + 1 distinct keys into an empty
\* cache evicts the first-inserted key and no other, whichever keys were hit
\* in between
C4_InsertionOrderEviction ==
    /\ InsertionOrderEviction(fc.cache, fc.maxSize, fc.stats.evictions, fcHist, fcPure)
    /\ InsertionOrderEviction(tc.cache, tc.maxEntries, tc.stats.evictions, tcHist, tcPure)

\* a FileCache of capacity 2 has taken three distinct keys, the first of them
\* was served as a hit while it was held, and it is the one no longer held
C4_Witness ==
    /\ fc.maxSize = 2
    /\ fcPure
    /\ Len(fcHist) = 3
    /\ ~Has(fc.cache, fcHist[1])
    /\ \E k \in 1..MaxCalls :
        /\ fcCalls[k].pc = "returned"
        /\ fcCalls[k].via = "cache"
        /\ generateKey(fcCalls[k].path) = fcHist[1]

\* the same for a TreeCache of capacity 2
C4_WitnessTree ==
    /\ tc.maxEntries = 2
    /\ tcPure
    /\ Len(tcHist) = 3
    /\ ~Has(tc.cache, tcHist[1])
    /\ tcLast.hit
    /\ TreeKey(tcLast.dirPath, tcLast.options) = tcHist[1]

\* the call in slot k found an entry younger than ttl and its stat answered
FoundFreshAndStatted(k) ==
    /\ fcCalls[k].found
    /\ fcCalls[k].at - fcCalls[k].entry.timestamp < fc.ttl
    /\ fcCalls[k].seen >= 0

\* C5: a get that finds an entry younger than ttl, for a file whose
\* modification time is not later than the entry's mtime, returns the stored
\* content and moves hits by one, misses and evictions not at all; when the
\* modification time is later, the get is counted as a miss (misses by one,
\* hits not at all) and what it returns comes from disk, not from the entry
C5_HitOrMissByMtime ==
    \A k \in 1..MaxCalls :
        LET call == fcCalls[k]
        IN FoundFreshAndStatted(k) =>
            IF call.seen <= call.entry.mtime
            THEN /\ call.pc = "returned"
                 /\ call.result = call.entry.content
                 /\ call.via = "cache"
                 /\ call.hits = 1
                 /\ call.misses = 0
                 /\ call.evictions = 0
            ELSE /\ call.hits = 0
                 /\ call.misses = 1
                 /\ call.via # "cache"
                 /\ call.pc = "returned" => call.result = call.content

\* one call has been served a fresh entry of an unmodified file, and another
\* call for the same file, begun on the same entry, has found the file
\* modified since and returned its new content from disk
C5_Witness ==
    \E k, j \in 1..MaxCalls :
        /\ FoundFreshAndStatted(k)
        /\ FoundFreshAndStatted(j)
        /\ fcCalls[k].path = fcCalls[j].path
        /\ fcCalls[k].seen <= fcCalls[k].entry.mtime
        /\ fcCalls[k].pc = "returned"
        /\ fcCalls[j].seen > fcCalls[j].entry.mtime
        /\ fcCalls[j].pc = "returned"
        /\ fcCalls[j].result # fcCalls[j].entry.content

\* C17: when the stat of a call of get that found an entry younger than ttl
\* throws, the call returns the content of that entry and counts one hit, no
\* miss and no eviction, and the step leaves the Map as it is
C17_StatFailureIsHit ==
    [][\A k \in 1..MaxCalls :
            (fcCalls[k].pc = "stat1" /\ fcCalls'[k].pc # "stat1" /\ ~StatOk(fcCalls[k].path)) =>
                /\ fcCalls'[k].pc = "returned"
                /\ fcCalls'[k].result = fcCalls[k].entry.content
                /\ fcCalls'[k].via = "cache"
                /\ fcCalls'[k].hits = 1
                /\ fcCalls'[k].misses = 0
                /\ fcCalls'[k].evictions = 0
                /\ fc'.cache = fc.cache
                /\ fc'.stats = [fc.stats EXCEPT !.hits = @ + 1]
      ]_vars

\* a call of get whose stat threw has returned the content of the entry it
\* found, and the entry is still in the Map
C17_Witness ==
    \E k \in 1..MaxCalls :
        /\ fcCalls[k].pc = "returned"
        /\ fcCalls[k].seen = -2
        /\ ~StatOk(fcCalls[k].path)
        /\ fcCalls[k].result = fcCalls[k].entry.content
        /\ Has(fc.cache, generateKey(fcCalls[k].path))
        /\ EntryOf(fc.cache, generateKey(fcCalls[k].path)) = fcCalls[k].entry
        /\ fc.stats.hits = 1

\* a call of FileCache.get begins in slot k
Begins(k) ==
    /\ fcCalls[k].pc \in {"idle", "returned", "threw"}
    /\ fcCalls'[k].pc \in {"stat1", "read"}

\* a call of TreeCache.get is made: every call counts a hit or a miss
TreeGetCalled == tc'.stats.hits + tc'.stats.misses # tc.stats.hits + tc.stats.misses

\* C18: a get that finds an entry with now - timestamp >= ttl deletes it,
\* raises evictions and misses by 1, leaves hits, and does not return the
\* stored value from the cache (FileCache.get goes on to read the file,
\* TreeCache.get returns null); a get that finds a younger entry removes it
\* only when the stat answers a later modification time
C18_ExpiredIsMiss ==
    [][/\ \A k \in 1..MaxCalls :
            LET key == generateKey(fcCalls'[k].path)
            IN (Begins(k) /\ Has(fc.cache, key)) =>
                    IF now - EntryOf(fc.cache, key).timestamp >= fc.ttl
                    THEN /\ ~Has(fc'.cache, key)
                         /\ fc'.stats.evictions = fc.stats.evictions + 1
                         /\ fc'.stats.misses = fc.stats.misses + 1
                         /\ fc'.stats.hits = fc.stats.hits
                         /\ fcCalls'[k].pc = "read"
                    ELSE fc'.cache = fc.cache
       /\ \A k \in 1..MaxCalls :
            (fcCalls[k].pc = "stat1" /\ fcCalls'[k].pc # "stat1" /\ fc'.cache # fc.cache) =>
                /\ StatOk(fcCalls[k].path)
                /\ disk[fcCalls[k].path].mtime > fcCalls[k].entry.mtime
       /\ \A k \in 1..MaxCalls :
            (/\ fcCalls[k].pc # "returned"
             /\ fcCalls'[k].pc = "returned"
             /\ fcCalls[k].found
             /\ fcCalls[k].at - fcCalls[k].entry.timestamp >= fc.ttl) =>
                /\ fcCalls'[k].via = "disk"
                /\ fcCalls'[k].hits = 0
       /\ TreeGetCalled =>
            LET dirPath == tcLast'.dirPath
                key == TreeKey(dirPath, tcLast'.options)
            IN Has(tc.cache, key) =>
                    IF now - EntryOf(tc.cache, key).timestamp >= tc.ttl
                    THEN /\ ~Has(tc'.cache, key)
                         /\ tc'.stats.evictions = tc.stats.evictions + 1
                         /\ tc'.stats.misses = tc.stats.misses + 1
                         /\ tc'.stats.hits = tc.stats.hits
                         /\ tcLast'.result = Null
                         /\ ~tcLast'.hit
                    ELSE \/ tc'.cache = tc.cache
                         \/ /\ StatOk(dirPath)
                            /\ disk[dirPath].mtime > EntryOf(tc.cache, key).mtime
      ]_vars

\* a call of FileCache.get that found an entry as old as ttl, of a file not
\* modified since, has returned the content it read from disk after counting
\* one eviction, one miss and no hit
C18_Witness ==
    \E k \in 1..MaxCalls :
        /\ fcCalls[k].pc = "returned"
        /\ fcCalls[k].found
        /\ fcCalls[k].at - fcCalls[k].entry.timestamp = fc.ttl
        /\ disk[fcCalls[k].path].mtime <= fcCalls[k].entry.mtime
        /\ fcCalls[k].via = "disk"
        /\ fcCalls[k].evictions = 1
        /\ fcCalls[k].misses = 1
        /\ fcCalls[k].hits = 0

\* after one set, a tick of the clock and one get, with no file changed, the
\* TreeCache has given up the entry and answered null
C18_WitnessTree ==
    /\ tcLeft = MaxOps - 2
    /\ fsMods = 0
    /\ Len(tcHist) = 1
    /\ tc.cache = <<>>
    /\ tc.stats = [hits |-> 0, misses |-> 1, evictions |-> 1]
    /\ tcLast.result = Null

\* C19: no step of get, set or invalidate lowers hits, misses or evictions
\* of a FileCache or of a TreeCache
C19_CountersNeverDecrease ==
    [][/\ fc'.stats.hits >= fc.stats.hits
       /\ fc'.stats.misses >= fc.stats.misses
       /\ fc'.stats.evictions >= fc.stats.evictions
       /\ tc'.stats.hits >= tc.stats.hits
       /\ tc'.stats.misses >= tc.stats.misses
       /\ tc'.stats.evictions >= tc.stats.evictions
      ]_vars

\* a FileCache that counted a miss and a hit has been emptied by invalidate
\* (nothing was evicted) and still shows both
C19_Witness ==
    /\ fcHist # <<>>
    /\ fc.cache = <<>>
    /\ fc.stats.evictions = 0
    /\ fc.stats.hits >= 1
    /\ fc.stats.misses >= 1

\* the same for a TreeCache
C19_WitnessTree ==
    /\ tcHist # <<>>
    /\ tc.cache = <<>>
    /\ tc.stats.evictions = 0
    /\ tc.stats.hits >= 1
    /\ tc.stats.misses >= 1

\* C20: invalidate() leaves the Map of a FileCache empty; invalidate(filePath)
\* takes the entry of filePath out of the Map and leaves the other entries as
\* they are, in their order, and changes nothing when filePath has no entry
C20_InvalidateFrame ==
    [][/\ InvalidateAll => fc'.cache = <<>>
       /\ \A filePath \in Paths :
            InvalidateOf(filePath) =>
                LET key == generateKey(filePath)
                IN /\ ~Has(fc'.cache, key)
                   /\ fc'.cache = SelectSeq(fc.cache, LAMBDA e : e.key # key)
                   /\ \A e \in Range(fc.cache) : e.key # key => e \in Range(fc'.cache)
                   /\ ~Has(fc.cache, key) => fc' = fc
      ]_vars

\* of two entries set one after the other, the second was taken out by
\* invalidate(filePath) and the first is still there
C20_Witness ==
    /\ fcLeft = MaxOps - 3
    /\ Len(fcHist) = 2
    /\ fc.stats.evictions = 0
    /\ Len(fc.cache) = 1
    /\ fc.cache[1].key = fcHist[1]
    /\ fc.stats.size = 1

\* invalidate() has emptied a cache of two entries
C20_WitnessAll ==
    /\ fcLeft = MaxOps - 3
    /\ Len(fcHist) = 2
    /\ fc.stats.evictions = 0
    /\ fc.cache = <<>>
    /\ fc.stats.size = 0

\* the sum of content.length over the entries of the Map
RECURSIVE ContentBytes(_)
ContentBytes(cache) ==
    IF cache = <<>> THEN 0 ELSE Len(Head(cache).content) + ContentBytes(Tail(cache))

\* C25: in every reachable state of a FileCache, whatever the interleaving of
\* get calls suspended at their awaits, set (also on a key already present)
\* and invalidate, stats.bytesStored equals the sum of content.length over the
\* entries in the cache, and so is never negative.
C25_BytesStoredIsSum ==
    /\ fc.stats.bytesStored = ContentBytes(fc.cache)
    /\ fc.stats.bytesStored >= 0

\* C26: every entry a FileCache holds pairs its content with the modification
\* time of the file version the content was read from: an entry whose mtime is
\* that of the file as it is now on disk (the entry a get would serve as a
\* hit) holds the file's current content, whatever modification fell between
\* the read and the stat of the get that stored it.
C26_EntryPairsContentWithItsMtime ==
    \A i \in 1..Len(fc.cache) :
        LET cacheEntry == fc.cache[i]
            filePath == cacheEntry.key[2]
        IN (disk[filePath].status = "ok" /\ Unmodified(disk[filePath].mtime, cacheEntry))
            => cacheEntry.content = disk[filePath].content

C29_WitnessNoStat ==
    /\ tcLast.dirPath \in Paths
    /\ tcLast.hit
    /\ tcLast.result = TreeData(tcLast.dirPath)
    /\ disk[tcLast.dirPath].status = "missing"
    /\ tc.stats.hits = 1

\* C30: TreeCache.invalidate(dirPath) without options removes every entry
\* stored for that directory, under any filter options, and leaves the
\* entries of other directories in place; invalidate(dirPath, options)
\* removes exactly the entry of that pair; invalidate() removes all entries
C30_TreeInvalidateRemoves ==
    [][\A dirPath \in Paths \cup {NoDir}, options \in TreeOptionInputs \cup {Undefined} :
          TreeInvalidateOf(dirPath, options) =>
              IF dirPath # NoDir /\ options = Undefined
              THEN tc'.cache = SelectSeq(tc.cache, LAMBDA e : e.key[2] # dirPath)
              ELSE IF dirPath # NoDir
              THEN tc'.cache = Delete(tc.cache, TreeKey(dirPath, options))
              ELSE tc'.cache = <<>>
      ]_vars

----------------------------------------------------------------------------
(* Properties of readFiles *)

\* the paths of a call whose read ended with content
Succeeded(read) == {read.paths[i] : i \in {j \in 1..Len(read.paths) : read.pcs[j] = "ok"}}

\* the paths of a call that can be read as the files are now
Readable(read) == {p \in Range(read.paths) : disk[p].status = "ok"}

\* C10: a call of readFiles resolves, whatever files could not be read, to a
\* map whose keys are exactly the paths whose read succeeded, each with
\* content that file has held; while no file has changed since the module was
\* loaded these are exactly the readable paths with their present content, so
\* that a call for missing files alone resolves to an empty map
C10_FailedReadsOmitted ==
    \A r \in 1..Len(reads) :
        LET read == reads[r]
        IN read.state = "resolved" =>
            /\ DOMAIN read.returned = Succeeded(read)
            /\ \A p \in DOMAIN read.returned :
                   read.returned[p] \in {ContentOf(p), disk[p].content}
            /\ fsMods = 0 =>
                   /\ DOMAIN read.returned = Readable(read)
                   /\ \A p \in DOMAIN read.returned : read.returned[p] = disk[p].content
                   /\ (\A p \in Range(read.paths) : disk[p].status = "missing") =>
                          read.returned = EmptyMap

\* a call of the batched version has resolved, one of its files missing and
\* another read: the map holds the second alone
C10_Witness ==
    \E r \in 1..Len(reads) : \E p, q \in ReadPaths :
        /\ reads[r].impl = "batched"
        /\ reads[r].state = "resolved"
        /\ fsMods = 0
        /\ reads[r].paths = <<p, q>>
        /\ disk[p].status = "missing"
        /\ disk[q].status = "ok"
        /\ DOMAIN reads[r].returned = {q}
        /\ reads[r].returned[q] = ContentOf(q)

\* a call for one missing file has resolved to the empty map
C10_WitnessMissingOnly ==
    \E r \in 1..Len(reads) : \E p \in ReadPaths :
        /\ reads[r].state = "resolved"
        /\ fsMods = 0
        /\ reads[r].paths = <<p>>
        /\ disk[p].status = "missing"
        /\ reads[r].returned = EmptyMap

\* C23: every read by which a call of readFiles (the batched version) obtains
\* the content of a file from disk is made with readFileStream when the file
\* is large (size >= 1 MiB) and with one fs.readFile when it is not, in every
\* mode, a miss of the cache included
C23_ReadMethodBySize ==
    \A r \in 1..Len(reads) :
        reads[r].impl = "batched" =>
            \A i \in 1..Len(reads[r].paths) :
                \A m \in Range(reads[r].methods[i]) :
                    m.large <=> m.method = "stream"

============================================================================
